---- MODULE Spec2Model ----
(***************************************************************************)
(* Model of the on-the-fly loader of float-v (src/src/build/transform.ts): *)
(* transformFile, rewriteImports, getLoader, clearModuleCache and the file *)
(* system, module-resolution and dynamic-import facilities they call.      *)
(*                                                                         *)
(* A path is a sequence of segments and a segment is the sequence of its   *)
(* dot-separated parts: /p/src/b.ts is << <<"">>, <<"p">>, <<"src">>,      *)
(* <<"b","ts">> >>.  The first segment of an absolute path is the empty    *)
(* name, as in "/p/src".split("/").                                        *)
(***************************************************************************)
EXTENDS Integers, Sequences, FiniteSets, TLC

VARIABLES
    files,       \* the regular files that exist among the project's sources
    lastResolve, \* the last lookup made through the resolver chain alone
    now,         \* the wall clock: Date.now() and the time stamped on written files
    mtimes,      \* modification time of every source file
    kinds,       \* what every source file currently holds: "ok", "syntax", "throws"
    cached,      \* the dependency cache files dep_<hash>.mjs, by dependency
    temps,       \* the temporary loadable files, by name
    tempDir,     \* whether .float/.cache has been created
    moduleCache, \* the in-memory module cache, by absolute path
    loaded,      \* the host's module map: what import() has loaded, by URL
    immediates,  \* the setImmediate callbacks not yet run
    calls,       \* the transformFile calls in flight, by slot
    results,     \* how the last call of every slot ended
    nLoads,      \* number of transformFile calls begun
    nEdits,      \* number of edits made to source files
    lastLoad,    \* history: the last module a completed load produced, by path
    ev,          \* history: what the last step decided about dependency caches
    lockedReactPath,    \* line 18: <<>> for null, <<path>> otherwise
    lockedReactDOMPath, \* line 19
    lastLock,    \* history: the last lockFrameworkDependencies call
    globals,     \* globalThis.__FLOAT_REACT__ and globalThis.__FLOAT_REACT_DOM__
    shims,       \* the shim modules the host has evaluated, by shim
    used,        \* history: the last use of a shim export by a loaded module
    text,        \* the code of one entry on its way through lines 88-100
    hook         \* one mounted useFloatState: React's state, the refs, storage

\* ------------------------------------------------------------------ paths

Root == <<"">>

Cwd == <<Root, <<"p">>>>

SrcDir == Cwd \o << <<"src">> >>

FrameworkDir == <<Root, <<"fw">>>>

NodeModules == Cwd \o << <<"node_modules">> >>

IsAbsolute(p) == Len(p) > 0 /\ p[1] = Root

Dirname(p) == SubSeq(p, 1, Len(p) - 1)

LastSeg(p) == p[Len(p)]

\* path.extname, without its leading dot
Extname(p) ==
    LET s == LastSeg(p) IN IF Len(s) >= 2 THEN s[Len(s)] ELSE ""

\* path.basename(p, ext)
Basename(p) ==
    LET s == LastSeg(p) IN IF Len(s) >= 2 THEN SubSeq(s, 1, Len(s) - 1) ELSE s

\* path.normalize: '.' segments dropped, '..' segments resolved
RECURSIVE NormalizeFrom(_, _)
NormalizeFrom(acc, rest) ==
    IF rest = <<>> THEN acc
    ELSE IF Head(rest) = <<".">> THEN NormalizeFrom(acc, Tail(rest))
    ELSE IF Head(rest) = <<"..">>
        THEN NormalizeFrom(IF Len(acc) > 1 THEN Dirname(acc) ELSE acc, Tail(rest))
    ELSE NormalizeFrom(Append(acc, Head(rest)), Tail(rest))

Normalize(p) == NormalizeFrom(<<>>, p)

\* path.resolve(p): a relative path is taken from the working directory, and
\* the result is normalized
PathResolve(p) == Normalize(IF IsAbsolute(p) THEN p ELSE Cwd \o p)

\* line 43: an absolute filePath is taken as it is spelled
AbsolutePath(filePath) == IF IsAbsolute(filePath) THEN filePath ELSE PathResolve(filePath)

\* the file a path names: the file system reads through '.' and '..'
OnDisk(p) == Normalize(p)

\* fs.existsSync: true of files and of the directories that hold them
ExistsSync(fs, p) ==
    \/ p \in fs
    \/ \E f \in fs : Len(f) > Len(p) /\ SubSeq(f, 1, Len(p)) = p

IsFile(fs, p) == p \in fs

\* ------------------------------------------------------------- specifiers
\* An import specifier is its leading marker ("./", "../", "@/", or "" for
\* a bare one) and the segments after it.

Spec_(pre, segs) == [pre |-> pre, segs |-> segs]

ReactSpec == Spec_("", << <<"react">> >>)
ReactJsxSpec == Spec_("", << <<"react">>, <<"jsx-runtime">> >>)
ReactDomSpec == Spec_("", << <<"react-dom">> >>)
ReactDomClientSpec == Spec_("", << <<"react-dom">>, <<"client">> >>)
ReactNativeSpec == Spec_("", << <<"react-native">> >>)
ReactNativeWebSpec == Spec_("", << <<"react-native-web">> >>)
CoreSpec == Spec_("", << <<"@float-v">>, <<"core">> >>)
LiteSpec == Spec_("", << <<"@float-v">>, <<"lite">> >>)
LodashSpec == Spec_("", << <<"lodash">> >>)
UiSpec == Spec_("", << <<"@acme">>, <<"ui">> >>)
NoPkgSpec == Spec_("", << <<"nopkg">> >>)
RelB == Spec_("./", << <<"b">> >>)
RelCJs == Spec_("./", << <<"c", "js">> >>)
RelUp == Spec_("../", << <<"src">>, <<"b">> >>)
AliasUtil == Spec_("@/", << <<"src">>, <<"util">> >>)
RelData == Spec_("./", << <<"data">> >>)
RelCa == Spec_("./", << <<"ca">> >>)
RelCb == Spec_("./", << <<"cb">> >>)
RelBJs == Spec_("./", << <<"b", "js">> >>)

\* importPath === 'react' || importPath.startsWith('react/')
IsReactExact(s) == s = ReactSpec

IsReactPrefix(s) ==
    s.pre = "" /\ s.segs[1] \in {<<"react">>, <<"react-dom">>, <<"react-native">>}

\* importPath === 'react' || importPath.startsWith('react/')
IsReact(s) == s.pre = "" /\ s.segs[1] = <<"react">>

\* importPath === 'react-dom' || importPath.startsWith('react-dom/')
IsReactDOM(s) == s.pre = "" /\ s.segs[1] = <<"react-dom">>

IsFramework(s) == s = CoreSpec

IsReactNative(s) == s = ReactNativeSpec

IsRelativeSpec(s) == s.pre \in {"./", "../", "@/"}

\* importPath.startsWith('.')
StartsWithDot(s) == s.pre \in {"./", "../"}

\* ------------------------------------------------ module-resolution scope
\* createRequire(baseDir/noop.js).resolve: the host's CommonJS lookup.  The
\* installed packages and their main files:

PackageMain(segs) ==
    IF segs = << <<"lodash">> >> THEN <<NodeModules \o << <<"lodash">>, <<"index", "js">> >>>>
    ELSE IF segs = << <<"react-native-web">> >>
        THEN <<NodeModules \o << <<"react-native-web">>, <<"index", "js">> >>>>
    ELSE IF segs \in {<< <<"react">> >>, << <<"react-dom">> >>, << <<"react-native">> >>}
        THEN <<NodeModules \o segs \o << <<"index", "js">> >>>>
    ELSE IF segs = << <<"@float-v">>, <<"core">> >>
        THEN <<NodeModules \o segs \o << <<"index", "js">> >>>>
    ELSE IF segs = << <<"@acme">>, <<"ui">> >>
        THEN <<Cwd \o << <<"packages">>, <<"ui">>, <<"index", "ts">> >>>>
    ELSE <<>>

AddExt(p, e) == IF e = "" THEN p ELSE [p EXCEPT ![Len(p)] = Append(@, e)]

JoinIndex(p, e) == Append(p, IF e = "" THEN <<"index">> ELSE <<"index", e>>)

RequireExtensions == <<"", "js", "json", "node">>

RequireCandidates(p) ==
    [i \in 1..4 |-> AddExt(p, RequireExtensions[i])]
        \o [i \in 1..3 |-> JoinIndex(p, RequireExtensions[i + 1])]

FirstFile(fs, c) ==
    IF \E i \in 1..Len(c) : IsFile(fs, c[i])
    THEN <<c[CHOOSE i \in 1..Len(c) : IsFile(fs, c[i]) /\ \A j \in 1..(i - 1) : ~IsFile(fs, c[j])]>>
    ELSE <<>>

MainIfFile(fs, m) == IF m # <<>> /\ IsFile(fs, m[1]) THEN m ELSE <<>>

\* <<path>> when the lookup succeeds, <<>> when it throws
NodeResolve(fs, baseDir, s) ==
    IF s.pre = "./" THEN FirstFile(fs, RequireCandidates(baseDir \o s.segs))
    ELSE IF s.pre = "../" THEN FirstFile(fs, RequireCandidates(Dirname(baseDir) \o s.segs))
    ELSE IF s.pre = "@/" THEN <<>>
    ELSE MainIfFile(fs, PackageMain(s.segs))

\* ---------------------------------------------------------- resolver chain

Extensions == <<".tsx", ".ts", ".jsx", ".js", ".mjs", "">>

ExtPart(e) ==
    IF e = ".tsx" THEN "tsx" ELSE IF e = ".ts" THEN "ts"
    ELSE IF e = ".jsx" THEN "jsx" ELSE IF e = ".js" THEN "js"
    ELSE IF e = ".mjs" THEN "mjs" ELSE ""

\* resolvedPath.replace(/\.(js|mjs)$/, '')
StrippedPath(p) ==
    IF Extname(p) \in {"js", "mjs"}
    THEN [p EXCEPT ![Len(p)] = SubSeq(@, 1, Len(@) - 1)]
    ELSE p

TryPath(p, i) == AddExt(StrippedPath(p), ExtPart(Extensions[i]))

IndexPath(p, i) == JoinIndex(p, ExtPart(Extensions[i]))

ProbeFromPathsFirst(fs, p, i) ==
    IF \E j \in i..Len(Extensions) : ExistsSync(fs, TryPath(p, j))
    THEN [found |-> TRUE,
          path |-> TryPath(p, CHOOSE j \in i..Len(Extensions) :
                        /\ ExistsSync(fs, TryPath(p, j))
                        /\ \A l \in i..(j - 1) : ~ExistsSync(fs, TryPath(p, l)))]
    ELSE IF \E j \in i..Len(Extensions) : ExistsSync(fs, IndexPath(p, j))
    THEN [found |-> TRUE,
          path |-> IndexPath(p, CHOOSE j \in i..Len(Extensions) :
                        /\ ExistsSync(fs, IndexPath(p, j))
                        /\ \A l \in i..(j - 1) : ~ExistsSync(fs, IndexPath(p, l)))]
    ELSE [found |-> FALSE, path |-> p]

\* The probing loop: per extension, the path plus the extension, then the
\* index file of the path taken as a directory.
RECURSIVE ProbeFrom(_, _, _)
ProbeFrom(fs, p, i) ==
    IF i > Len(Extensions) THEN [found |-> FALSE, path |-> p]
    ELSE IF ExistsSync(fs, TryPath(p, i)) THEN [found |-> TRUE, path |-> TryPath(p, i)]
    ELSE IF ExistsSync(fs, IndexPath(p, i)) THEN [found |-> TRUE, path |-> IndexPath(p, i)]
    ELSE ProbeFrom(fs, p, i + 1)

Probe(fs, p) == ProbeFrom(fs, p, 1)

\* path.resolve(process.cwd(), importPath.slice(2)) or path.resolve(baseDir, importPath)
RelativeTarget(baseDir, s) ==
    IF s.pre = "@/" THEN Cwd \o s.segs
    ELSE IF s.pre = "./" THEN baseDir \o s.segs
    ELSE Dirname(baseDir) \o s.segs

\* the framework's own entry point, beside the rewriter's own module
FrameworkEntry(fs) ==
    IF ExistsSync(fs, Append(FrameworkDir, <<"index", "js">>))
    THEN Append(FrameworkDir, <<"index", "js">>)
    ELSE Append(FrameworkDir, <<"index", "ts">>)

NoMatch ==
    [found |-> FALSE, shim |-> "", path |-> <<>>, by |-> "none", probed |-> FALSE,
     looked |-> FALSE]

NativeTarget(n) == IF n # <<>> THEN n[1] ELSE << <<"react-native-web">> >>

\* lines 162-210: the four special specifiers
ResolveSpecial(fs, baseDir, s) ==
    IF IsReact(s) THEN [NoMatch EXCEPT !.found = TRUE, !.shim = "react", !.by = "react"]
    ELSE IF IsReactDOM(s)
        THEN [NoMatch EXCEPT !.found = TRUE, !.shim = "react-dom", !.by = "react-dom"]
    ELSE IF IsReactNative(s)
        THEN [NoMatch EXCEPT !.found = TRUE, !.by = "native",
                !.path = NativeTarget(NodeResolve(fs, baseDir, ReactNativeWebSpec))]
    ELSE IF IsFramework(s) \/ s = LiteSpec
        THEN [NoMatch EXCEPT !.found = TRUE, !.by = "framework", !.path = FrameworkEntry(fs)]
    ELSE NoMatch

Probed(r, q) ==
    [r EXCEPT !.found = q.found, !.path = q.path, !.probed = TRUE,
              !.by = IF q.found THEN "relative" ELSE "none"]

\* lines 212-227: relative and project-root-alias specifiers
ResolveRelative(fs, baseDir, s, r) ==
    IF ~r.found /\ IsRelativeSpec(s)
    THEN Probed(r, Probe(fs, RelativeTarget(baseDir, s)))
    ELSE r

TransformExts == {"ts", "tsx", "jsx"}

Looked(s, r, n) ==
    IF n # <<>> /\ Extname(n[1]) \in TransformExts
    THEN [r EXCEPT !.found = TRUE, !.path = n[1], !.by = "bare"]
    ELSE IF ~StartsWithDot(s) /\ n # <<>>
    THEN [r EXCEPT !.found = TRUE, !.path = n[1], !.by = "bare"]
    ELSE r

\* lines 231-276: module-resolution lookup, then the strict bare fallback
ResolveBare(fs, baseDir, s, r) ==
    IF r.found THEN r
    ELSE Looked(s, [r EXCEPT !.looked = TRUE], NodeResolve(fs, baseDir, s))

\* lines 146-278 for one specifier
ResolveImport(fs, baseDir, s) ==
    ResolveBare(fs, baseDir, s,
        ResolveRelative(fs, baseDir, s, ResolveSpecial(fs, baseDir, s)))

\* ----------------------------------------------------- resolver-only runs

Specifiers ==
    {ReactSpec, ReactJsxSpec, ReactDomSpec, ReactDomClientSpec, ReactNativeSpec,
     CoreSpec, LiteSpec, LodashSpec, UiSpec, NoPkgSpec,
     RelB, RelBJs, RelCJs, RelUp, AliasUtil, RelData}

\* ------------------------------------------------------------ the project

AppFile == SrcDir \o << <<"app", "tsx">> >>
FileB == SrcDir \o << <<"b", "ts">> >>
FileC == SrcDir \o << <<"c", "ts">> >>
UtilIndex == SrcDir \o << <<"util">>, <<"index", "js">> >>
LodashMain == NodeModules \o << <<"lodash">>, <<"index", "js">> >>
RNWebMain == NodeModules \o << <<"react-native-web">>, <<"index", "js">> >>
FrameworkJs == Append(FrameworkDir, <<"index", "js">>)
Installed ==
    {NodeModules \o segs \o << <<"index", "js">> >> :
        segs \in {<< <<"react">> >>, << <<"react-dom">> >>, << <<"react-native">> >>,
                  << <<"@float-v">>, <<"core">> >>}}

\* a page with two specifiers nothing resolves, between ones that resolve
PageFile == SrcDir \o << <<"page", "tsx">> >>

\* two files that import each other
CycA == SrcDir \o << <<"ca", "tsx">> >>

CycB == SrcDir \o << <<"cb", "tsx">> >>

Entries == {AppFile}

Deps == {FileB, FileC}

Sources == Entries \cup Deps

ProjectFiles == Sources \cup {UtilIndex, LodashMain, RNWebMain, FrameworkJs} \cup Installed

\* the from-clauses of every source file, in textual order (the entry's
\* after the default import of the UI runtime has been prepended)
Imports(f) ==
    IF f = AppFile THEN <<ReactSpec, RelB, ReactDomClientSpec, LodashSpec>>
    ELSE IF f = FileB THEN <<ReactJsxSpec, RelCJs, CoreSpec>>
    ELSE IF f = FileC THEN <<ReactNativeSpec, LiteSpec, AliasUtil>>
    ELSE IF f = PageFile THEN <<ReactSpec, NoPkgSpec, RelData, RelB, LodashSpec>>
    ELSE IF f = CycA THEN <<ReactSpec, RelCb>>
    ELSE IF f = CycB THEN <<ReactSpec, RelCa>>
    ELSE <<>>

\* ------------------------------------------------------------------ bounds

MaxLoads == 2

\* statements in the code of an entry
MaxStatements == 3

\* the largest maxHistory option a component passes to useFloatState
MaxHistory == 3

\* state updates React holds for one component between two renders
MaxPending == 3

\* nested rewriteImports calls followed in one transformFile call
MaxDepth == 4

MaxEdits == 1

MaxNow == 2

\* the callers that may have a transformFile call in flight
Slots == DOMAIN calls

vars == <<files, lastResolve, now, mtimes, kinds, cached, temps, tempDir, moduleCache,
          loaded, immediates, calls, results, nLoads, nEdits, lastLoad, ev,
          lockedReactPath, lockedReactDOMPath, lastLock, globals, shims, used,
          text, hook>>

\* what the loader's steps on whole files leave alone
auxVars == <<text, hook>>

lockVars == <<lockedReactPath, lockedReactDOMPath, lastLock>>

hostVars == <<lockVars, globals, shims, used, auxVars>>

\* ------------------------------------------------------- cache directory

\* path.join(process.cwd(), '.float', '.cache')
TempDirPath == Cwd \o << <<".float">>, <<".cache">> >>

\* sha256(resolvedPath).slice(0, 16): a fingerprint of the path alone
Hash(p) == IF p = FileB THEN "b0b0" ELSE IF p = FileC THEN "c0c0" ELSE "0000"

\* dep_<hash>.mjs in the cache directory
CachedFile(p) == Append(TempDirPath, <<"dep_", Hash(p), "mjs">>)

\* <basename>_<Date.now()>.mjs in the cache directory
TempName(p, t) == [base |-> Basename(p), t |-> t]

TempNames == {TempName(p, t) : p \in Entries, t \in 0..MaxNow}

\* the rewritten target of a from-clause
\* the inlined shim module and the process-global slot its exports read
DataUrl(shim) ==
    [t |-> "data", shim |-> shim,
     slot |-> IF shim = "react" THEN "__FLOAT_REACT__" ELSE "__FLOAT_REACT_DOM__"]
FileUrl(p) == [t |-> "file", path |-> PathResolve(p)]
UnmodifiedAsFile(s) == [t |-> "file", path |-> PathResolve(s.segs)]

\* line 278: the from-clause is left as written
Unmodified(s) == [t |-> "orig", spec |-> s]

CacheEntry(c, d) == IF d \in DOMAIN c THEN c[d] ELSE <<>>

NeedsTransformLax(c, m, d) ==
    CacheEntry(c, d) = <<>> \/ m[d] >= CacheEntry(c, d)[1].mtime

\* line 287: no cache file, or the source is strictly newer than it
NeedsTransform(c, m, d) ==
    CacheEntry(c, d) = <<>> \/ m[d] > CacheEntry(c, d)[1].mtime

\* lines 278-313 for one resolved specifier: the target to write, or the
\* dependency whose transform has to be awaited
Rewritten(c, s, r) ==
    IF ~r.found /\ r.shim = ""
        THEN [await |-> FALSE, target |-> Unmodified(s), dep |-> <<>>]
    ELSE IF r.shim # ""
        THEN [await |-> FALSE, target |-> DataUrl(r.shim), dep |-> <<>>]
    ELSE IF Extname(r.path) \in TransformExts
        THEN IF NeedsTransform(c, mtimes, r.path)
             THEN [await |-> TRUE, target |-> <<>>, dep |-> <<r.path>>]
             ELSE [await |-> FALSE, target |-> FileUrl(CachedFile(r.path)),
                   dep |-> <<r.path>>]
    ELSE [await |-> FALSE, target |-> FileUrl(r.path), dep |-> <<>>]

\* lines 146-313 for one specifier, up to the first suspension
RewriteOne(c, f, s) == Rewritten(c, s, ResolveImport(files, Dirname(f), s))

Frame(f, ver, kind) == [file |-> f, ver |-> ver, kind |-> kind, i |-> 1, out |-> <<>>]

Decision(id, c, fr, j, d, regen) ==
    [op |-> "decide", call |-> id, in |-> fr.file, pos |-> j, file |-> d, src |-> mtimes[d],
     cache |-> IF CacheEntry(c, d) = <<>> THEN <<>> ELSE <<CacheEntry(c, d)[1].mtime>>,
     regen |-> regen]

\* every specifier of a file, decided on the file system as it stands
Outcomes(c, f) == [j \in 1..Len(Imports(f)) |-> RewriteOne(c, f, Imports(f)[j])]

\* the first position from i on that has to wait for a transform, or one
\* past the last specifier
ScanStop(os, i) ==
    IF \E j \in i..Len(os) : os[j].await
    THEN CHOOSE j \in i..Len(os) : os[j].await /\ \A l \in i..(j - 1) : ~os[l].await
    ELSE Len(os) + 1

ScanTo(id, c, fr, evs, os, k) ==
    [frame |-> [fr EXCEPT !.i = k,
                          !.out = @ \o [j \in 1..(k - fr.i) |-> os[fr.i + j - 1].target]],
     evs |-> evs \cup {Decision(id, c, fr, j, os[j].dep[1], os[j].await) :
                        j \in {l \in fr.i..Len(os) : l <= k /\ os[l].dep # <<>>}},
     wait |-> IF k <= Len(os) THEN os[k].dep ELSE <<>>]

ScanWith(id, c, fr, evs, os) == ScanTo(id, c, fr, evs, os, ScanStop(os, fr.i))

\* the for loop of rewriteImports from the frame's position to its next
\* suspension (a dependency to transform) or to its end; nothing the loop
\* reads changes while it runs, so every specifier is decided on the same
\* file system and the loop stops at the first one that has to wait
Scan(id, c, fr, evs) == ScanWith(id, c, fr, evs, Outcomes(c, fr.file))

\* fs.readFileSync of a dependency, as handed to the transformer
Snapshot(d) == [file |-> d, ver |-> mtimes[d], kind |-> kinds[d]]

\* ------------------------------------------------------------ transformFile

GonePath == SrcDir \o << <<"gone", "tsx">> >>

Requestable == Entries \cup {GonePath}

IdleCall ==
    [pc |-> "idle", id |-> 0, path |-> <<>>, dbg |-> FALSE, mtime |-> 0,
     tmp |-> <<>>, stack |-> <<>>, dep |-> <<>>, edits |-> 0]

\* how a call ended: its module or its error, and what it left behind
Loaded(call, id, p, dbg, m, module, hit) ==
    [id |-> id, path |-> p, dbg |-> dbg, mtime |-> m, ok |-> TRUE, hit |-> hit,
     module |-> <<module>>, err |-> <<>>, tmp |-> call.tmp, wrote |-> ~hit]

Failed(call, id, p, dbg, m, err, wrote) ==
    [id |-> id, path |-> p, dbg |-> dbg, mtime |-> m, ok |-> FALSE, hit |-> FALSE,
     module |-> <<>>, err |-> <<err>>, tmp |-> call.tmp, wrote |-> wrote]

\* line 59: cached && cached.mtime === mtime
CacheHit(entry, m) == entry # <<>> /\ entry[1].mtime = m

BeginCacheFirst(c, p, dbg) ==
    /\ UNCHANGED hostVars
    /\ calls[c].pc = "idle"
    /\ nLoads < MaxLoads
    /\ nLoads' = nLoads + 1
    /\ ev' = {}
    /\ IF moduleCache[AbsolutePath(p)] # <<>>
       THEN /\ results' = [results EXCEPT ![c] =
                    <<Loaded(IdleCall, nLoads + 1, AbsolutePath(p), dbg, moduleCache[AbsolutePath(p)][1].mtime,
                             moduleCache[AbsolutePath(p)][1].module, TRUE)>>]
            /\ UNCHANGED calls
       ELSE IF ~ExistsSync(files, OnDisk(AbsolutePath(p)))
       THEN /\ results' = [results EXCEPT ![c] =
                    <<Failed(IdleCall, nLoads + 1, AbsolutePath(p), dbg, 0,
                             [kind |-> "FileNotFound", file |-> AbsolutePath(p)], FALSE)>>]
            /\ UNCHANGED calls
       ELSE /\ calls' = [calls EXCEPT ![c] =
                    [IdleCall EXCEPT !.pc = "transform", !.id = nLoads + 1, !.path = AbsolutePath(p),
                        !.dbg = dbg, !.mtime = mtimes[OnDisk(AbsolutePath(p))], !.edits = nEdits,
                        !.stack = <<Frame(OnDisk(AbsolutePath(p)), mtimes[OnDisk(AbsolutePath(p))], kinds[OnDisk(AbsolutePath(p))])>>]]
            /\ results' = [results EXCEPT ![c] = <<>>]
    /\ UNCHANGED <<files, lastResolve, now, mtimes, kinds, cached, temps, tempDir,
                   moduleCache, loaded, immediates, nEdits, lastLoad>>

\* lines 43-80: up to the await of the transformer
Begin(c, p, dbg) ==
    /\ UNCHANGED hostVars
    /\ calls[c].pc = "idle"
    /\ nLoads < MaxLoads
    /\ nLoads' = nLoads + 1
    /\ ev' = {}
    /\ IF ~ExistsSync(files, OnDisk(AbsolutePath(p)))
       THEN /\ results' = [results EXCEPT ![c] =
                    <<Failed(IdleCall, nLoads + 1, AbsolutePath(p), dbg, 0,
                             [kind |-> "FileNotFound", file |-> AbsolutePath(p)], FALSE)>>]
            /\ UNCHANGED calls
       ELSE IF CacheHit(moduleCache[AbsolutePath(p)], mtimes[OnDisk(AbsolutePath(p))])
       THEN /\ results' = [results EXCEPT ![c] =
                    <<Loaded(IdleCall, nLoads + 1, AbsolutePath(p), dbg, mtimes[OnDisk(AbsolutePath(p))],
                             moduleCache[AbsolutePath(p)][1].module, TRUE)>>]
            /\ UNCHANGED calls
       ELSE /\ calls' = [calls EXCEPT ![c] =
                    [IdleCall EXCEPT !.pc = "transform", !.id = nLoads + 1, !.path = AbsolutePath(p),
                        !.dbg = dbg, !.mtime = mtimes[OnDisk(AbsolutePath(p))], !.edits = nEdits,
                        !.stack = <<Frame(OnDisk(AbsolutePath(p)), mtimes[OnDisk(AbsolutePath(p))], kinds[OnDisk(AbsolutePath(p))])>>]]
            /\ results' = [results EXCEPT ![c] = <<>>]
    /\ UNCHANGED <<files, lastResolve, now, mtimes, kinds, cached, temps, tempDir,
                   moduleCache, loaded, immediates, nEdits, lastLoad>>

Fail(c, err, wrote) ==
    /\ results' = [results EXCEPT ![c] =
            <<Failed(calls[c], calls[c].id, calls[c].path, calls[c].dbg, calls[c].mtime,
                     err, wrote)>>]
    /\ calls' = [calls EXCEPT ![c] = IdleCall]

\* where a call stands once its scan has stopped
Await(call, r, done) ==
    [call EXCEPT !.pc = IF r.wait = <<>> THEN done ELSE "dep",
                 !.dep = IF r.wait = <<>> THEN <<>> ELSE <<Snapshot(r.wait[1])>>]

\* the call goes on from the scan's end, the scanned frame on the given stack
Resume(c, call, below, r, done) ==
    /\ calls' = [calls EXCEPT ![c] =
            Await([call EXCEPT !.stack = Append(below, r.frame)], r, done)]
    /\ ev' = r.evs

\* lines 71-95: the transformer settles; on success the temporary name is
\* chosen and rewriteImports runs to its first suspension
TransformDone(c) ==
    /\ UNCHANGED hostVars
    /\ calls[c].pc = "transform"
    /\ IF calls[c].stack[1].kind = "syntax"
       THEN /\ Fail(c, [kind |-> "SyntaxError", file |-> calls[c].path], FALSE)
            /\ ev' = {}
            /\ UNCHANGED tempDir
       ELSE /\ tempDir' = TRUE
            /\ Resume(c, [calls[c] EXCEPT !.tmp = <<TempName(calls[c].path, now)>>], <<>>,
                      Scan(calls[c].id, cached, calls[c].stack[1], {}), "rewritten")
            /\ UNCHANGED results
    /\ UNCHANGED <<files, lastResolve, now, mtimes, kinds, cached, temps, moduleCache,
                   loaded, immediates, nLoads, nEdits, lastLoad>>

DepTransformDoneSwallow(c) ==
    /\ UNCHANGED hostVars
    /\ calls[c].pc = "dep"
    /\ Len(calls[c].stack) < MaxDepth
    /\ Resume(c, calls[c], calls[c].stack,
              Scan(calls[c].id, cached,
                   Frame(calls[c].dep[1].file, calls[c].dep[1].ver, calls[c].dep[1].kind),
                   {}),
              "depdone")
    /\ UNCHANGED <<files, lastResolve, now, mtimes, kinds, cached, temps, tempDir,
                   moduleCache, loaded, immediates, results, nLoads, nEdits, lastLoad>>

\* lines 290-308: a dependency's transform settles; on success the nested
\* rewriteImports runs to its first suspension, on failure the error is
\* rethrown through every enclosing rewriteImports to transformFile's caller
DepTransformDone(c) ==
    /\ UNCHANGED hostVars
    /\ calls[c].pc = "dep"
    /\ Len(calls[c].stack) < MaxDepth
    /\ IF calls[c].dep[1].kind = "syntax"
       THEN /\ Fail(c, [kind |-> "SyntaxError", file |-> calls[c].dep[1].file], FALSE)
            /\ ev' = {}
       ELSE /\ Resume(c, calls[c], calls[c].stack,
                      Scan(calls[c].id, cached,
                           Frame(calls[c].dep[1].file, calls[c].dep[1].ver,
                                 calls[c].dep[1].kind), {}),
                      "depdone")
            /\ UNCHANGED results
    /\ UNCHANGED <<files, lastResolve, now, mtimes, kinds, cached, temps, tempDir,
                   moduleCache, loaded, immediates, nLoads, nEdits, lastLoad>>

CacheContent(fr) ==
    [mtime |-> now, src |-> fr.file, ver |-> fr.ver, kind |-> fr.kind, out |-> fr.out]

WriteCache(c, top) == [c EXCEPT ![top.file] = <<CacheContent(top)>>]

RedirectedToSource(parent, top) ==
    [parent EXCEPT !.i = @ + 1, !.out = Append(@, FileUrl(top.file))]

\* lines 310-319: the from-clause names the cache file
Redirected(parent, top) ==
    [parent EXCEPT !.i = @ + 1, !.out = Append(@, FileUrl(CachedFile(top.file)))]

Written(id, parent, top) ==
    [op |-> "write", call |-> id, in |-> parent.file, pos |-> parent.i, file |-> top.file,
     ver |-> top.ver]

\* lines 300-319: the nested rewriteImports has returned; the cache file is
\* written, the from-clause redirected to it and the enclosing loop goes on
DepRewriteDone(c) ==
    /\ UNCHANGED hostVars
    /\ calls[c].pc = "depdone"
    /\ cached' = WriteCache(cached, calls[c].stack[Len(calls[c].stack)])
    /\ Resume(c, calls[c], SubSeq(calls[c].stack, 1, Len(calls[c].stack) - 2),
              Scan(calls[c].id, WriteCache(cached, calls[c].stack[Len(calls[c].stack)]),
                   Redirected(calls[c].stack[Len(calls[c].stack) - 1],
                              calls[c].stack[Len(calls[c].stack)]),
                   {Written(calls[c].id, calls[c].stack[Len(calls[c].stack) - 1],
                            calls[c].stack[Len(calls[c].stack)])}),
              IF Len(calls[c].stack) = 2 THEN "rewritten" ELSE "depdone")
    /\ UNCHANGED <<files, lastResolve, now, mtimes, kinds, temps, tempDir, moduleCache,
                   loaded, immediates, results, nLoads, nEdits, lastLoad>>

TempContent(call) ==
    [src |-> call.path, ver |-> call.stack[1].ver, kind |-> call.stack[1].kind,
     out |-> call.stack[1].out, by |-> call.id]

\* lines 95-103: rewriteImports has returned; the temporary file is written
\* and its dynamic import started
RewriteDone(c) ==
    /\ UNCHANGED hostVars
    /\ calls[c].pc = "rewritten"
    /\ temps' = [temps EXCEPT ![calls[c].tmp[1]] = <<TempContent(calls[c])>>]
    /\ calls' = [calls EXCEPT ![c].pc = "import"]
    /\ ev' = {}
    /\ UNCHANGED <<files, lastResolve, now, mtimes, kinds, cached, tempDir, moduleCache,
                   loaded, immediates, results, nLoads, nEdits, lastLoad>>

\* whether the host can link the module: no from-clause was left as written
\* for a specifier nothing resolves, and every dependency cache file the
\* from-clauses name is there
DepsPresent(content) ==
    \A k \in 1..Len(content.out) :
        /\ content.out[k].t # "orig"
        /\ \A d \in DOMAIN cached :
              content.out[k] = FileUrl(CachedFile(d)) => cached[d] # <<>>

\* the module record the host keeps for a URL it has evaluated
ModuleRecord(name, content) ==
    [url |-> name, src |-> content.src, ver |-> content.ver, ok |-> content.kind = "ok"]

Evaluated(h) ==
    IF h.ok THEN [ok |-> TRUE, module |-> h, seen |-> {h}]
    ELSE [ok |-> FALSE, err |-> [kind |-> "EvaluationError", file |-> h.src], seen |-> {h}]

\* import(pathToFileURL(tempFile).href): the host evaluates a URL once; a URL
\* it has evaluated is answered from its module map (the module, or the error
\* its evaluation threw), any other is read from disk
ImportOutcome(name) ==
    IF \E h \in loaded : h.url = name
    THEN Evaluated(CHOOSE h \in loaded : h.url = name)
    ELSE IF temps[name] = <<>>
    THEN [ok |-> FALSE, err |-> [kind |-> "ModuleNotFound", file |-> <<>>], seen |-> {}]
    ELSE IF ~DepsPresent(temps[name][1])
    THEN [ok |-> FALSE, err |-> [kind |-> "ModuleNotFound", file |-> temps[name][1].src],
          seen |-> {}]
    ELSE Evaluated(ModuleRecord(name, temps[name][1]))

\* the from-clause lists of the module graph the host links: the module's
\* own and those of the dependency cache files they name
RECURSIVE Graph(_, _)
Graph(S, n) ==
    IF n = 0 THEN S
    ELSE Graph(S \cup {cached[d][1].out :
                          d \in {e \in DOMAIN cached :
                                    /\ cached[e] # <<>>
                                    /\ \E o \in S : \E k \in 1..Len(o) :
                                           o[k] = FileUrl(CachedFile(e))}},
               n - 1)

ImportedShims(content) ==
    {sh \in DOMAIN shims :
        \E o \in Graph({content.out}, Cardinality(DOMAIN cached)) :
            \E k \in 1..Len(o) : o[k] = DataUrl(sh)}

\* lines 169, 181 and 187: the default export and Fragment are bound when
\* the shim is evaluated (the renderer's shim exports no Fragment)
ShimModule(sh) ==
    [default |-> IF sh = "react" \/ globals["__FLOAT_REACT_DOM__"] = <<>>
                 THEN globals["__FLOAT_REACT__"]
                 ELSE globals["__FLOAT_REACT_DOM__"],
     fragment |-> IF sh = "react" THEN globals["__FLOAT_REACT__"] ELSE <<>>]

\* the data: URL of a shim is the same text in every rewritten file, so the
\* host evaluates each shim once, with the first module graph that links it
EvaluateShims(name) ==
    IF (\E h \in loaded : h.url = name) \/ temps[name] = <<>>
    THEN shims
    ELSE IF ~DepsPresent(temps[name][1])
    THEN shims
    ELSE [sh \in DOMAIN shims |->
            IF shims[sh] = <<>> /\ sh \in ImportedShims(temps[name][1])
            THEN <<ShimModule(sh)>> ELSE shims[sh]]

CacheSetStamped(call, module) == <<[module |-> module, mtime |-> now]>>

CacheSetCurrent(call, module) ==
    <<[module |-> module, mtime |-> mtimes[OnDisk(call.path)]]>>

\* line 104
CacheSet(call, module) == <<[module |-> module, mtime |-> call.mtime]>>

\* fs.unlinkSync inside try/catch: a missing file is not an error
Unlink(t, name) == [t EXCEPT ![name] = <<>>]

\* lines 103-116: the dynamic import settles
ImportDone(c) ==
    /\ calls[c].pc = "import"
    /\ shims' = EvaluateShims(calls[c].tmp[1])
    /\ UNCHANGED <<lockVars, globals, used, auxVars>>
    /\ LET call == calls[c]
           name == call.tmp[1]
           o == ImportOutcome(name)
       IN IF o.ok
          THEN /\ loaded' = loaded \cup o.seen
               /\ moduleCache' = [moduleCache EXCEPT ![call.path] = CacheSet(call, o.module)]
               /\ lastLoad' = [lastLoad EXCEPT ![call.path] =
                                    <<[module |-> o.module, mtime |-> call.mtime]>>]
               /\ immediates' = IF call.dbg THEN immediates ELSE immediates \cup {name}
               /\ results' = [results EXCEPT ![c] =
                      <<Loaded(call, call.id, call.path, call.dbg, call.mtime, o.module,
                               FALSE)>>]
               /\ calls' = [calls EXCEPT ![c] = IdleCall]
               /\ UNCHANGED temps
          ELSE /\ loaded' = loaded \cup o.seen
               /\ temps' = IF call.dbg THEN temps ELSE Unlink(temps, name)
               /\ Fail(c, o.err, TRUE)
               /\ UNCHANGED <<moduleCache, lastLoad, immediates>>
    /\ ev' = {}
    /\ UNCHANGED <<files, lastResolve, now, mtimes, kinds, cached, tempDir, nLoads, nEdits>>

\* line 107: the setImmediate callback
RunImmediate(name) ==
    /\ UNCHANGED hostVars
    /\ name \in immediates
    /\ immediates' = immediates \ {name}
    /\ temps' = Unlink(temps, name)
    /\ ev' = {}
    /\ UNCHANGED <<files, lastResolve, now, mtimes, kinds, cached, tempDir, moduleCache,
                   loaded, calls, results, nLoads, nEdits, lastLoad>>

\* lines 325-326: clearModuleCache(filePath) deletes the key
\* path.resolve(filePath)
ClearModuleCache(p) ==
    /\ UNCHANGED hostVars
    /\ PathResolve(p) \in DOMAIN moduleCache
    /\ moduleCache[PathResolve(p)] # <<>>
    /\ moduleCache' = [moduleCache EXCEPT ![PathResolve(p)] = <<>>]
    /\ lastLoad' = [lastLoad EXCEPT ![PathResolve(p)] = <<>>]
    /\ ev' = {}
    /\ UNCHANGED <<files, lastResolve, now, mtimes, kinds, cached, temps, tempDir, loaded,
                   immediates, calls, results, nLoads, nEdits>>

\* line 327: clearModuleCache() empties the map
ClearAll ==
    /\ UNCHANGED hostVars
    /\ \E k \in DOMAIN moduleCache : moduleCache[k] # <<>>
    /\ moduleCache' = [k \in DOMAIN moduleCache |-> <<>>]
    /\ lastLoad' = [k \in DOMAIN lastLoad |-> <<>>]
    /\ ev' = {}
    /\ UNCHANGED <<files, lastResolve, now, mtimes, kinds, cached, temps, tempDir, loaded,
                   immediates, calls, results, nLoads, nEdits>>

\* ------------------------------------------------------------ environment

\* an entry file is deleted from the project
Remove(f) ==
    /\ UNCHANGED hostVars
    /\ f \in files
    /\ files' = files \ {f}
    /\ ev' = {}
    /\ UNCHANGED <<lastResolve, now, mtimes, kinds, cached, temps, tempDir, moduleCache,
                   loaded, immediates, calls, results, nLoads, nEdits, lastLoad>>

\* the wall clock advances
Tick ==
    /\ UNCHANGED hostVars
    /\ now < MaxNow
    /\ now' = now + 1
    /\ ev' = {}
    /\ UNCHANGED <<files, lastResolve, mtimes, kinds, cached, temps, tempDir, moduleCache,
                   loaded, immediates, calls, results, nLoads, nEdits, lastLoad>>

EditKinds(f) == IF f \in Entries THEN {"ok", "throws", "syntax"} ELSE {"ok", "syntax"}

\* a developer saves a source file: new content, newer modification time
Edit(f, k) ==
    /\ UNCHANGED hostVars
    /\ nEdits < MaxEdits
    /\ now > mtimes[f]
    /\ nEdits' = nEdits + 1
    /\ mtimes' = [mtimes EXCEPT ![f] = now]
    /\ kinds' = [kinds EXCEPT ![f] = k]
    /\ ev' = {}
    /\ UNCHANGED <<files, lastResolve, now, cached, temps, tempDir, moduleCache, loaded,
                   immediates, calls, results, nLoads, lastLoad>>

\* lines 18-19, and a host that has put nothing in the global slots yet
HostInit ==
    /\ lockedReactPath = <<>>
    /\ lockedReactDOMPath = <<>>
    /\ lastLock = <<>>
    /\ globals = [g \in {"__FLOAT_REACT__", "__FLOAT_REACT_DOM__"} |-> <<>>]
    /\ shims = [g \in {"react", "react-dom"} |-> <<>>]
    /\ used = <<>>

\* no entry code and no hook under study
AuxInit ==
    /\ text = <<>>
    /\ hook = <<>>

Init ==
    /\ HostInit
    /\ AuxInit
    /\ files = ProjectFiles
    /\ lastResolve = <<>>
    /\ now = 1
    /\ mtimes = [f \in Sources |-> 0]
    /\ kinds = [f \in Sources |-> "ok"]
    /\ cached = [d \in Deps |-> <<>>]
    /\ temps = [n \in TempNames |-> <<>>]
    /\ tempDir = FALSE
    /\ moduleCache = [p \in Requestable |-> <<>>]
    /\ loaded = {}
    /\ immediates = {}
    /\ calls = [c \in {"a"} |-> IdleCall]
    /\ results = [c \in {"a"} |-> <<>>]
    /\ nLoads = 0
    /\ nEdits = 0
    /\ lastLoad = [p \in Requestable |-> <<>>]
    /\ ev = {}

\* one caller, the debug flag off (the two-caller specification below takes
\* the flag either way)
Next ==
    \/ \E c \in Slots, p \in Requestable : Begin(c, p, FALSE)
    \/ \E c \in Slots : TransformDone(c)
    \/ \E c \in Slots : DepTransformDone(c)
    \/ \E c \in Slots : DepRewriteDone(c)
    \/ \E c \in Slots : RewriteDone(c)
    \/ \E c \in Slots : ImportDone(c)
    \/ \E name \in TempNames : RunImmediate(name)
    \/ \E p \in Requestable : ClearModuleCache(p)
    \/ \E f \in Sources, k \in {"ok", "throws", "syntax"} : k \in EditKinds(f) /\ Edit(f, k)
    \/ Tick

Spec == Init /\ [][Next]_vars

\* --------------------------------------------------- two concurrent callers
\* Two callers with calls in flight at once, over a warm dependency cache
\* (every dependency already transformed), an entry that loads or throws.

WarmFrame(d, c) == Scan(0, c, Frame(d, 0, "ok"), {}).frame

WarmEntry(d, c) ==
    <<[mtime |-> 0, src |-> d, ver |-> 0, kind |-> "ok", out |-> WarmFrame(d, c).out]>>

InitConc ==
    /\ HostInit
    /\ AuxInit
    /\ files = ProjectFiles
    /\ lastResolve = <<>>
    /\ now = 1
    /\ mtimes = [f \in Sources |-> 0]
    /\ kinds \in {[f \in Sources |-> IF f = AppFile THEN k ELSE "ok"] : k \in {"ok", "throws"}}
    /\ cached = [d \in Deps |->
            IF d = FileC THEN WarmEntry(FileC, [e \in Deps |-> <<>>])
            ELSE WarmEntry(FileB, [e \in Deps |->
                    IF e = FileC THEN WarmEntry(FileC, [g \in Deps |-> <<>>]) ELSE <<>>])]
    /\ temps = [n \in TempNames |-> <<>>]
    /\ tempDir = TRUE
    /\ moduleCache = [p \in Requestable |-> <<>>]
    /\ loaded = {}
    /\ immediates = {}
    /\ calls = [c \in {"a", "b"} |-> IdleCall]
    /\ results = [c \in {"a", "b"} |-> <<>>]
    /\ nLoads = 0
    /\ nEdits = 0
    /\ lastLoad = [p \in Requestable |-> <<>>]
    /\ ev = {}

NextConc ==
    \/ \E c \in Slots, p \in Entries, dbg \in BOOLEAN : Begin(c, p, dbg)
    \/ \E c \in Slots : TransformDone(c)
    \/ \E c \in Slots : RewriteDone(c)
    \/ \E c \in Slots : ImportDone(c)
    \/ \E name \in TempNames : RunImmediate(name)
    \/ Tick

SpecConc == InitConc /\ [][NextConc]_vars

\* the two callers again, the entry file being saved while they run
NextRace ==
    \/ \E c \in Slots, p \in Entries : Begin(c, p, FALSE)
    \/ \E c \in Slots : TransformDone(c)
    \/ \E c \in Slots : RewriteDone(c)
    \/ \E c \in Slots : ImportDone(c)
    \/ \E name \in TempNames : RunImmediate(name)
    \/ \E k \in {"ok", "throws"} : k \in EditKinds(AppFile) /\ Edit(AppFile, k)
    \/ Tick

SpecRace == InitConc /\ [][NextRace]_vars

\* ------------------------------------------------------- every entry file
\* One caller over every entry file of the project, cold caches; entry files
\* may be deleted.

AllEntries == Entries \cup {PageFile}

AllSources == AllEntries \cup Deps

AllTempNames == {TempName(p, t) : p \in AllEntries, t \in 0..MaxNow}

InitEntries ==
    /\ HostInit
    /\ AuxInit
    /\ files = ProjectFiles \cup {PageFile}
    /\ lastResolve = <<>>
    /\ now = 1
    /\ mtimes = [f \in AllSources |-> 0]
    /\ kinds = [f \in AllSources |-> "ok"]
    /\ cached = [d \in Deps |-> <<>>]
    /\ temps = [n \in AllTempNames |-> <<>>]
    /\ tempDir = FALSE
    /\ moduleCache = [p \in AllEntries |-> <<>>]
    /\ loaded = {}
    /\ immediates = {}
    /\ calls = [c \in {"a"} |-> IdleCall]
    /\ results = [c \in {"a"} |-> <<>>]
    /\ nLoads = 0
    /\ nEdits = 0
    /\ lastLoad = [p \in AllEntries |-> <<>>]
    /\ ev = {}

NextEntries ==
    \/ \E c \in Slots, p \in AllEntries, dbg \in BOOLEAN : Begin(c, p, dbg)
    \/ \E c \in Slots : TransformDone(c)
    \/ \E c \in Slots : DepTransformDone(c)
    \/ \E c \in Slots : DepRewriteDone(c)
    \/ \E c \in Slots : RewriteDone(c)
    \/ \E c \in Slots : ImportDone(c)
    \/ \E name \in AllTempNames : RunImmediate(name)
    \/ \E p \in AllEntries : ClearModuleCache(p)
    \/ \E f \in AllEntries : Remove(f)
    \/ Tick

SpecEntries == InitEntries /\ [][NextEntries]_vars

\* ------------------------------------------------------------ import cycle
\* One caller over a project that also holds two files importing each other,
\* with a cold dependency cache.
CycleEntries == Entries \cup {CycA}

CycleSources == Sources \cup {CycA, CycB}

CycleTempNames == {TempName(p, t) : p \in CycleEntries, t \in 0..MaxNow}

InitCycle ==
    /\ HostInit
    /\ AuxInit
    /\ files = ProjectFiles \cup {CycA, CycB}
    /\ lastResolve = <<>>
    /\ now = 1
    /\ mtimes = [f \in CycleSources |-> 0]
    /\ kinds = [f \in CycleSources |-> "ok"]
    /\ cached = [d \in Deps \cup {CycA, CycB} |-> <<>>]
    /\ temps = [n \in CycleTempNames |-> <<>>]
    /\ tempDir = FALSE
    /\ moduleCache = [p \in CycleEntries |-> <<>>]
    /\ loaded = {}
    /\ immediates = {}
    /\ calls = [c \in {"a"} |-> IdleCall]
    /\ results = [c \in {"a"} |-> <<>>]
    /\ nLoads = 0
    /\ nEdits = 0
    /\ lastLoad = [p \in CycleEntries |-> <<>>]
    /\ ev = {}

NextCycle ==
    \/ \E c \in Slots, p \in CycleEntries : Begin(c, p, FALSE)
    \/ \E c \in Slots : TransformDone(c)
    \/ \E c \in Slots : DepTransformDone(c)
    \/ \E c \in Slots : DepRewriteDone(c)
    \/ \E c \in Slots : RewriteDone(c)
    \/ \E c \in Slots : ImportDone(c)
    \/ \E name \in CycleTempNames : RunImmediate(name)
    \/ \E p \in CycleEntries : ClearModuleCache(p)
    \/ Tick

SpecCycle == InitCycle /\ [][NextCycle]_vars

\* ------------------------------------------------------------ code as text
\* The code of a file as a sequence of lexical units, for the steps of the
\* loader that work on the text: the injected import (lines 88-92), the
\* replacement of from-clauses (138-141, 315-319) and the removal of
\* stylesheet imports (98).

Ws == {" ", "\n"}

Quotes == {"'", "\""}

\* code.includes(pat)
Includes(code, pat) ==
    \E i \in 1..(Len(code) - Len(pat) + 1) : SubSeq(code, i, i + Len(pat) - 1) = pat

\* the first position from j on whose unit is not in S, Len(code) + 1 if none
RECURSIVE SkipWhile(_, _, _)
SkipWhile(code, j, S) ==
    IF j > Len(code) THEN j
    ELSE IF code[j] \in S THEN SkipWhile(code, j + 1, S)
    ELSE j

\* the first position from j on whose unit is in S, Len(code) + 1 if none
RECURSIVE SkipUntil(_, _, _)
SkipUntil(code, j, S) ==
    IF j > Len(code) THEN j
    ELSE IF code[j] \in S THEN j
    ELSE SkipUntil(code, j + 1, S)

\* line 138: importRegex (the word from, white space, a quoted string
\* that is not empty) tried at position i; the match as [index, last,
\* path], or <<>>
FromMatchAt(code, i, a, b) ==
    IF /\ code[i] = "from"
       /\ a > i + 1
       /\ a <= Len(code)
       /\ b <= Len(code)
       /\ b > a + 1
    THEN <<[index |-> i, last |-> b, path |-> SubSeq(code, a + 1, b - 1)]>>
    ELSE <<>>

FromMatch(code, i) ==
    FromMatchAt(code, i, SkipWhile(code, i + 1, Ws),
                SkipUntil(code, SkipWhile(code, i + 1, Ws) + 1, Quotes))

\* line 139: code.matchAll(importRegex), left to right, not overlapping
RECURSIVE MatchAll(_, _)
MatchAll(code, i) ==
    IF i > Len(code) THEN <<>>
    ELSE IF FromMatch(code, i) = <<>> THEN MatchAll(code, i + 1)
    ELSE FromMatch(code, i) \o MatchAll(code, FromMatch(code, i)[1].last + 1)

\* a specifier as it is written
RECURSIVE SegsText(_)
SegsText(segs) ==
    IF segs = <<>> THEN <<>>
    ELSE (IF Len(Head(segs)) = 1 THEN <<Head(segs)[1]>>
          ELSE <<Head(segs)[1], ".", Head(segs)[2]>>)
         \o (IF Len(segs) = 1 THEN <<>> ELSE <<"/">> \o SegsText(Tail(segs)))

SpecifierText(s) == (IF s.pre = "" THEN <<>> ELSE <<s.pre>>) \o SegsText(s.segs)

\* an absolute path as it is written
PathText(p) == IF Len(p) <= 1 THEN <<"/">> ELSE <<"/">> \o SegsText(Tail(p))

\* the text of a rewritten target: the data: URL of a shim, or
\* pathToFileURL(resolvedPath).href
Href(target) ==
    IF target.t = "data" THEN <<"data:text/javascript;base64,", target.shim>>
    ELSE <<"file://">> \o PathText(target.path)

RelCss == Spec_("./", << <<"a", "css">> >>)

CssFile == SrcDir \o << <<"a", "css">> >>

TextFiles == ProjectFiles \cup {CssFile}

\* the specifiers the entry codes below are written with
TextSpecifiers ==
    {ReactSpec, ReactDomSpec, ReactNativeSpec, LodashSpec, NoPkgSpec, RelB, RelCss}

\* where the from-clause of a specifier ends up pointing once the loop body
\* (lines 146-313) is through with it: <<>> when line 278 skips it
FinalTarget(o) ==
    IF o.await THEN <<FileUrl(CachedFile(o.dep[1]))>>
    ELSE IF o.target.t = "orig" THEN <<>>
    ELSE <<o.target>>

FinalImportPath(fs, path) ==
    IF \E sp \in TextSpecifiers : SpecifierText(sp) = path
    THEN FinalTarget(Rewritten([d \in Deps |-> <<>>], CHOOSE sp \in TextSpecifiers : SpecifierText(sp) = path,
                               ResolveImport(fs, SrcDir,
                                   CHOOSE sp \in TextSpecifiers : SpecifierText(sp) = path)))
    ELSE <<>>

\* line 315
Replacement(target) == <<"from", " ", "'">> \o Href(target) \o <<"'">>

ReplaceAtOriginalIndex(newCode, offset, m, r) ==
    [code |-> SubSeq(newCode, 1, m.index - 1) \o r
                \o SubSeq(newCode, m.last + 1, Len(newCode)),
     offset |-> offset]

\* lines 316-319: one replacement at the shifted position
Replace(newCode, offset, m, r) ==
    [code |-> SubSeq(newCode, 1, m.index + offset - 1) \o r
                \o SubSeq(newCode, m.last + offset + 1, Len(newCode)),
     offset |-> offset + Len(r) - (m.last - m.index + 1)]

\* lines 145-320: the loop over the matches
RECURSIVE RewriteLoop(_, _, _, _)
RewriteLoop(fs, acc, ms, k) ==
    IF k > Len(ms) THEN acc.code
    ELSE IF FinalImportPath(fs, ms[k].path) = <<>> THEN RewriteLoop(fs, acc, ms, k + 1)
    ELSE RewriteLoop(fs,
            Replace(acc.code, acc.offset, ms[k],
                    Replacement(FinalImportPath(fs, ms[k].path)[1])),
            ms, k + 1)

\* rewriteImports as a function of the code
RewriteImportsText(fs, code) ==
    RewriteLoop(fs, [code |-> code, offset |-> 0], MatchAll(code, 1), 1)

InjectedImport ==
    <<"import", " ", "React", " ", "from", " ", "'", "react", "'", ";", "\n">>

\* lines 89-92
Inject(code) ==
    IF /\ ~Includes(code, <<"import", " ", "React">>)
       /\ ~Includes(code, <<"import", " ", "*", " ", "as", " ", "React">>)
    THEN InjectedImport \o code
    ELSE code

\* line 98: the stylesheet-import pattern (the word import, white space, a
\* quoted string ending in .css, an optional semicolon) tried at position
\* i; the last position of the match, or 0
CssMatchAt(code, i, a, b) ==
    IF /\ code[i] = "import"
       /\ a > i + 1
       /\ a <= Len(code)
       /\ code[a] \in Quotes
       /\ b <= Len(code)
       /\ b >= a + 3
       /\ code[b - 2] = "."
       /\ code[b - 1] = "css"
    THEN IF b < Len(code) /\ code[b + 1] = ";" THEN b + 1 ELSE b
    ELSE 0

CssMatch(code, i) ==
    CssMatchAt(code, i, SkipWhile(code, i + 1, Ws),
               SkipUntil(code, SkipWhile(code, i + 1, Ws) + 1, Quotes))

\* line 98: code.replace(..., '')
RECURSIVE StripCss(_, _)
StripCss(code, i) ==
    IF i > Len(code) THEN <<>>
    ELSE IF CssMatch(code, i) = 0 THEN <<code[i]>> \o StripCss(code, i + 1)
    ELSE StripCss(code, CssMatch(code, i) + 1)

\* esbuild's output, statement by statement: imports with a binding,
\* side-effect imports, markup lowered to React.createElement, and a string
\* that has the words of a from-clause in it
ImportFrom(binding, s) ==
    <<"import", " ">> \o binding \o <<" ", "from", " ", "\"">> \o SpecifierText(s)
        \o <<"\"", ";", "\n">>

ImportOnly(s) == <<"import", " ", "\"">> \o SpecifierText(s) \o <<"\"", ";", "\n">>

Markup == <<"React", ".", "createElement", "(", "\"", "div", "\"", ")", ";", "\n">>

\* (the unit "backtick" stands for the delimiter of a template literal)
Literal ==
    <<"const", " ", "q", " ", "=", " ", "backtick", "from", " ", "\n", "'">>
        \o SpecifierText(LodashSpec) \o <<"'", "backtick", ";", "\n">>

Statements ==
    {ImportFrom(<<"React">>, ReactSpec),
     ImportFrom(<<"*", " ", "as", " ", "React">>, ReactSpec),
     ImportFrom(<<"{", "useState", "}">>, ReactSpec),
     ImportFrom(<<"React", "DOM">>, ReactDomSpec),
     ImportFrom(<<"{", "View", "}">>, ReactNativeSpec),
     ImportFrom(<<"{", "b", "}">>, RelB),
     ImportFrom(<<"x">>, NoPkgSpec),
     ImportFrom(<<"styles">>, RelCss),
     ImportOnly(RelCss),
     Markup,
     Literal}

RECURSIVE Codes(_)
Codes(n) ==
    IF n = 0 THEN {<<>>}
    ELSE Codes(n - 1) \cup {c \o st : c \in Codes(n - 1), st \in Statements}

loaderVars ==
    <<files, lastResolve, now, mtimes, kinds, cached, temps, tempDir, moduleCache, loaded,
      immediates, calls, results, nLoads, nEdits, lastLoad, ev>>

\* lines 88-92 of transformFile
InjectReact ==
    /\ text.stage = "transformed"
    /\ text' = [text EXCEPT !.stage = "injected", !.code = Inject(text.code)]
    /\ UNCHANGED <<loaderVars, lockVars, globals, shims, used, hook>>

\* line 95 (what rewriteImports does to the files is in the specifications
\* above)
RewriteEntry ==
    /\ text.stage = "injected"
    /\ text' = [text EXCEPT !.stage = "rewritten", !.before = text.code,
                            !.code = RewriteImportsText(files, text.code)]
    /\ UNCHANGED <<loaderVars, lockVars, globals, shims, used, hook>>

\* lines 98-100
StripAndWrite ==
    /\ text.stage = "rewritten"
    /\ text' = [text EXCEPT !.stage = "written", !.code = StripCss(text.code, 1)]
    /\ UNCHANGED <<loaderVars, lockVars, globals, shims, used, hook>>

InitText ==
    /\ HostInit
    /\ hook = <<>>
    /\ text \in {[stage |-> "transformed", src |-> c, before |-> <<>>, code |-> c] :
                    c \in Codes(MaxStatements) \ {<<>>}}
    /\ files = TextFiles
    /\ lastResolve = <<>>
    /\ now = 1
    /\ mtimes = [f \in Sources |-> 0]
    /\ kinds = [f \in Sources |-> "ok"]
    /\ cached = [d \in Deps |-> <<>>]
    /\ temps = [n \in TempNames |-> <<>>]
    /\ tempDir = FALSE
    /\ moduleCache = [p \in Entries |-> <<>>]
    /\ loaded = {}
    /\ immediates = {}
    /\ calls = [c \in {"a"} |-> IdleCall]
    /\ results = [c \in {"a"} |-> <<>>]
    /\ nLoads = 0
    /\ nEdits = 0
    /\ lastLoad = [p \in Entries |-> <<>>]
    /\ ev = {}

NextText ==
    \/ InjectReact
    \/ RewriteEntry
    \/ StripAndWrite

SpecText == InitText /\ [][NextText]_vars

\* ------------------------------------------------------------ useFloatState
\* One component that calls useFloatState (src/src/hooks/index.ts), in a
\* browser.  React keeps the state and a queue of updates: the first update
\* of an idle component is computed when it is dispatched, every further
\* one when the component renders next; an updater function runs when its
\* update is computed.

Values == {0, 1, 2}

InitialValue == 0

\* JSON.stringify / JSON.parse of the default serializer
Serialize(v) == <<"json", v>>

Deserialize(str) == str[2]

\* lines 177-206: getInitialValue, the state, the refs
Mount(opts, storage) ==
    [opts |-> opts,
     state |-> IF opts.persist /\ storage # <<>> THEN Deserialize(storage[1])
               ELSE InitialValue,
     initial |-> IF opts.persist /\ storage # <<>> THEN Deserialize(storage[1])
                 ELSE InitialValue,
     history |-> <<IF opts.persist /\ storage # <<>> THEN Deserialize(storage[1])
                   ELSE InitialValue>>,
     index |-> 0,
     storage |-> storage,
     queue |-> <<>>,
     rehydrated |-> <<>>]

\* lines 235-237: the future is dropped when the index is not at the end
Truncated(h) ==
    IF h.index < Len(h.history) - 1 THEN SubSeq(h.history, 1, h.index + 1) ELSE h.history

\* lines 233-247
Pushed(h, v) ==
    IF ~h.opts.history THEN h
    ELSE IF Len(Truncated(h)) + 1 > h.opts.max
    THEN [h EXCEPT !.history = Tail(Append(Truncated(h), v))]
    ELSE [h EXCEPT !.history = Append(Truncated(h), v), !.index = h.index + 1]

\* lines 224-230
Persisted(h, v) ==
    IF h.opts.persist THEN [h EXCEPT !.storage = <<Serialize(v)>>] ELSE h

\* lines 210-250: what the updater passed to setState does when it runs
\* (its return value becomes the state)
RunUpdater(h, v) == Pushed(Persisted(h, v), v)

\* a render: the queued updates are computed in order
RECURSIVE Flushed(_)
Flushed(h) ==
    IF h.queue = <<>> THEN h
    ELSE IF Head(h.queue).kind = "value"
    THEN Flushed([h EXCEPT !.state = Head(h.queue).v, !.queue = Tail(h.queue)])
    ELSE Flushed([RunUpdater(h, Head(h.queue).v) EXCEPT
                        !.state = Head(h.queue).v, !.queue = Tail(h.queue)])

\* setState(updater): computed at once when nothing is pending (and dropped
\* if it leaves the state as it is), queued behind the pending updates
\* otherwise
Dispatched(h, v) ==
    IF h.queue # <<>>
    THEN [h EXCEPT !.queue = Append(h.queue, [kind |-> "updater", v |-> v]),
                   !.rehydrated = <<>>]
    ELSE IF v = h.state THEN [RunUpdater(h, v) EXCEPT !.rehydrated = <<>>]
    ELSE [RunUpdater(h, v) EXCEPT !.queue = <<[kind |-> "value", v |-> v]>>,
                                  !.rehydrated = <<>>]

\* lines 262-271
Undone(h) ==
    IF ~h.opts.history \/ h.index = 0 THEN h
    ELSE [h EXCEPT !.index = h.index - 1,
                   !.queue = Append(h.queue, [kind |-> "value", v |-> h.history[h.index]]),
                   !.rehydrated = <<>>]

\* lines 273-282
Redone(h) ==
    IF ~h.opts.history \/ h.index >= Len(h.history) - 1 THEN h
    ELSE [h EXCEPT !.index = h.index + 1,
                   !.queue = Append(h.queue,
                                    [kind |-> "value", v |-> h.history[h.index + 2]]),
                   !.rehydrated = <<>>]

HookFrame == UNCHANGED <<loaderVars, lockVars, globals, shims, used, text>>

\* lines 209-251
SetValue(v) ==
    /\ Len(hook.queue) < MaxPending
    /\ hook' = Dispatched(hook, v)
    /\ HookFrame

\* lines 254-259
Reset ==
    /\ Len(hook.queue) < MaxPending
    /\ hook' = Dispatched(hook, hook.initial)
    /\ HookFrame

Undo ==
    /\ Len(hook.queue) < MaxPending
    /\ hook' = Undone(hook)
    /\ HookFrame

Redo ==
    /\ Len(hook.queue) < MaxPending
    /\ hook' = Redone(hook)
    /\ HookFrame

\* React renders the component
Render ==
    /\ hook.queue # <<>>
    /\ hook' = Flushed(hook)
    /\ HookFrame

\* the page is loaded again: a new session mounts the component over the
\* storage the last one left
Reload ==
    /\ hook.queue = <<>>
    /\ hook' = [Mount(hook.opts, hook.storage) EXCEPT !.rehydrated = <<hook.state>>]
    /\ HookFrame

HookOptions ==
    {[history |-> hi, persist |-> pe, max |-> m] :
        hi \in BOOLEAN, pe \in BOOLEAN, m \in 1..MaxHistory}

InitHook ==
    /\ HostInit
    /\ text = <<>>
    /\ hook \in {Mount(o, <<>>) : o \in HookOptions}
    /\ files = ProjectFiles
    /\ lastResolve = <<>>
    /\ now = 1
    /\ mtimes = [f \in Sources |-> 0]
    /\ kinds = [f \in Sources |-> "ok"]
    /\ cached = [d \in Deps |-> <<>>]
    /\ temps = [n \in TempNames |-> <<>>]
    /\ tempDir = FALSE
    /\ moduleCache = [p \in Entries |-> <<>>]
    /\ loaded = {}
    /\ immediates = {}
    /\ calls = [c \in {"a"} |-> IdleCall]
    /\ results = [c \in {"a"} |-> <<>>]
    /\ nLoads = 0
    /\ nEdits = 0
    /\ lastLoad = [p \in Entries |-> <<>>]
    /\ ev = {}

NextHook ==
    \/ \E v \in Values : SetValue(v)
    \/ Reset
    \/ Undo
    \/ Redo
    \/ Render
    \/ Reload

SpecHook == InitHook /\ [][NextHook]_vars

\* ------------------------------------------------------- path spellings
\* One caller that names the entry file the ways a caller can: its absolute
\* path, the same path through a '.' segment, and the path relative to the
\* working directory.
AppDotted == SrcDir \o << <<".">>, <<"app", "tsx">> >>

AppRelative == << <<"src">>, <<"app", "tsx">> >>

PathSpellings == {AppFile, AppDotted, AppRelative}

PathKeys == {AbsolutePath(p) : p \in PathSpellings}

InitPaths ==
    /\ HostInit
    /\ AuxInit
    /\ files = ProjectFiles
    /\ lastResolve = <<>>
    /\ now = 1
    /\ mtimes = [f \in Sources |-> 0]
    /\ kinds = [f \in Sources |-> "ok"]
    /\ cached = [d \in Deps |-> <<>>]
    /\ temps = [n \in TempNames |-> <<>>]
    /\ tempDir = FALSE
    /\ moduleCache = [p \in PathKeys |-> <<>>]
    /\ loaded = {}
    /\ immediates = {}
    /\ calls = [c \in {"a"} |-> IdleCall]
    /\ results = [c \in {"a"} |-> <<>>]
    /\ nLoads = 0
    /\ nEdits = 0
    /\ lastLoad = [p \in PathKeys |-> <<>>]
    /\ ev = {}

NextPaths ==
    \/ \E c \in Slots, p \in PathSpellings : Begin(c, p, FALSE)
    \/ \E c \in Slots : TransformDone(c)
    \/ \E c \in Slots : DepTransformDone(c)
    \/ \E c \in Slots : DepRewriteDone(c)
    \/ \E c \in Slots : RewriteDone(c)
    \/ \E c \in Slots : ImportDone(c)
    \/ \E name \in TempNames : RunImmediate(name)
    \/ \E p \in PathSpellings : ClearModuleCache(p)
    \/ ClearAll
    \/ Tick

SpecPaths == InitPaths /\ [][NextPaths]_vars

\* ------------------------------------------------ framework lock and shims
\* The server process: it locks the framework dependencies to a project
\* root, the host puts runtime instances in the global slots, entry files
\* are loaded and the loaded modules use what they imported from the shims.

\* a second project root: its node_modules/react is a link into a package
\* store and it has no renderer; a third root has no packages at all
AltRoot == <<Root, <<"q">>>>

BareRoot == <<Root, <<"r">>>>

ProjectRoots == {Cwd, AltRoot, BareRoot}

PackageEntry(dir, pkg) == dir \o << <<"node_modules">>, <<pkg>>, <<"index", "js">> >>

StoreReact == <<Root, <<"store">>, <<"react">>, <<"index", "js">>>>

\* fs.realpathSync
Realpath(p) == IF p = PackageEntry(AltRoot, "react") THEN StoreReact ELSE p

LockFiles == ProjectFiles \cup {PackageEntry(AltRoot, "react"), StoreReact}

\* createRequire(path.join(projectRoot, 'noop.js')).resolve(pkg): the
\* node_modules directories of the root and of every directory above it;
\* <<path>> when the lookup succeeds, <<>> when it throws
RECURSIVE LookupFrom(_, _, _)
LookupFrom(fs, dir, pkg) ==
    IF IsFile(fs, PackageEntry(dir, pkg)) THEN <<PackageEntry(dir, pkg)>>
    ELSE IF Len(dir) <= 1 THEN <<>>
    ELSE LookupFrom(fs, Dirname(dir), pkg)

\* lines 24-32: the second assignment is not reached when the first lookup
\* throws, and the catch block restores nothing
LockFrameworkDependencies(projectRoot) ==
    /\ lockedReactPath' =
           IF LookupFrom(files, projectRoot, "react") = <<>> THEN lockedReactPath
           ELSE <<Realpath(LookupFrom(files, projectRoot, "react")[1])>>
    /\ lockedReactDOMPath' =
           IF \/ LookupFrom(files, projectRoot, "react") = <<>>
              \/ LookupFrom(files, projectRoot, "react-dom") = <<>>
           THEN lockedReactDOMPath
           ELSE <<Realpath(LookupFrom(files, projectRoot, "react-dom")[1])>>
    /\ lastLock' = <<[root |-> projectRoot,
                      react |-> LookupFrom(files, projectRoot, "react"),
                      dom |-> LookupFrom(files, projectRoot, "react-dom"),
                      at |-> nLoads, threw |-> FALSE]>>
    /\ ev' = {}
    /\ UNCHANGED <<files, lastResolve, now, mtimes, kinds, cached, temps, tempDir,
                   moduleCache, loaded, immediates, calls, results, nLoads, nEdits,
                   lastLoad, globals, shims, used, auxVars>>

\* the runtime instances the host process can have loaded, by install path
Runtimes(g) ==
    IF g = "__FLOAT_REACT__" THEN {PackageEntry(Cwd, "react"), StoreReact}
    ELSE {PackageEntry(Cwd, "react-dom")}

\* the host process assigns a global slot
Populate(g, inst) ==
    /\ globals[g] = <<>>
    /\ globals' = [globals EXCEPT ![g] = <<inst>>]
    /\ ev' = {}
    /\ UNCHANGED <<files, lastResolve, now, mtimes, kinds, cached, temps, tempDir,
                   moduleCache, loaded, immediates, calls, results, nLoads, nEdits,
                   lastLoad, lockVars, shims, used, auxVars>>

\* what a loaded module can do with its imports from the shims: call a
\* named export, or call a member of the default export (every JSX element
\* is React.createElement(...), lines 73-74)
RuntimeUses == {"useState", "createElement", "default.createElement"}

RendererUses == {"render", "default.render"}

\* an export a module reads without calling it
RuntimeReads == {"Fragment"}

ShimOf(e) == IF e \in RuntimeUses \cup RuntimeReads THEN "react" ELSE "react-dom"

Called(inst) == [outcome |-> "called", logged |-> FALSE, inst |-> inst]

\* lines 164-180 and 187-189
UseOutcome(e) ==
    IF e = "Fragment"
    THEN [outcome |-> "read", logged |-> FALSE, inst |-> shims["react"][1].fragment]
    ELSE IF e \in {"useState", "createElement"}
    THEN IF globals["__FLOAT_REACT__"] = <<>>
         THEN [outcome |-> "noop", logged |-> TRUE, inst |-> <<>>]
         ELSE Called(globals["__FLOAT_REACT__"])
    ELSE IF e = "render"
    THEN IF globals["__FLOAT_REACT_DOM__"] = <<>>
         THEN [outcome |-> "noop", logged |-> FALSE, inst |-> <<>>]
         ELSE Called(globals["__FLOAT_REACT_DOM__"])
    ELSE IF shims[ShimOf(e)][1].default = <<>>
    THEN [outcome |-> "threw", logged |-> FALSE, inst |-> <<>>]
    ELSE IF e = "default.render" /\ shims[ShimOf(e)][1].default[1] \notin Runtimes("__FLOAT_REACT_DOM__")
    THEN [outcome |-> "threw", logged |-> FALSE, inst |-> shims[ShimOf(e)][1].default]
    ELSE Called(shims[ShimOf(e)][1].default)

\* a module a transformFile call has returned uses a shim export
Use(c, e) ==
    /\ results[c] # <<>>
    /\ results[c][1].ok
    /\ shims[ShimOf(e)] # <<>>
    /\ used' = <<[export |-> e, id |-> results[c][1].id, hit |-> results[c][1].hit,
                  slot |-> globals, outcome |-> UseOutcome(e).outcome,
                  logged |-> UseOutcome(e).logged, inst |-> UseOutcome(e).inst]>>
    /\ ev' = {}
    /\ UNCHANGED <<files, lastResolve, now, mtimes, kinds, cached, temps, tempDir,
                   moduleCache, loaded, immediates, calls, results, nLoads, nEdits,
                   lastLoad, lockVars, globals, shims, auxVars>>

InitLock ==
    /\ HostInit
    /\ AuxInit
    /\ files = LockFiles
    /\ lastResolve = <<>>
    /\ now = 1
    /\ mtimes = [f \in Sources |-> 0]
    /\ kinds = [f \in Sources |-> "ok"]
    /\ cached = [d \in Deps |-> <<>>]
    /\ temps = [n \in TempNames |-> <<>>]
    /\ tempDir = FALSE
    /\ moduleCache = [p \in Entries |-> <<>>]
    /\ loaded = {}
    /\ immediates = {}
    /\ calls = [c \in {"a"} |-> IdleCall]
    /\ results = [c \in {"a"} |-> <<>>]
    /\ nLoads = 0
    /\ nEdits = 0
    /\ lastLoad = [p \in Entries |-> <<>>]
    /\ ev = {}

NextLock ==
    \/ \E root \in ProjectRoots : LockFrameworkDependencies(root)
    \/ \E g \in DOMAIN globals : \E inst \in Runtimes(g) : Populate(g, inst)
    \/ \E c \in Slots, p \in Entries : Begin(c, p, FALSE)
    \/ \E c \in Slots : TransformDone(c)
    \/ \E c \in Slots : DepTransformDone(c)
    \/ \E c \in Slots : DepRewriteDone(c)
    \/ \E c \in Slots : RewriteDone(c)
    \/ \E c \in Slots : ImportDone(c)
    \/ \E name \in TempNames : RunImmediate(name)
    \/ \E c \in Slots, e \in RuntimeUses \cup RuntimeReads \cup RendererUses : Use(c, e)

SpecLock == InitLock /\ [][NextLock]_vars

\* ------------------------------------------------------ the resolver alone
\* The resolver chain over every set of files a source directory may hold.

ProbeFiles ==
    {SrcDir \o << <<"b">> >>,
     SrcDir \o << <<"b", "tsx">> >>,
     SrcDir \o << <<"b", "ts">> >>,
     SrcDir \o << <<"b", "js">> >>,
     SrcDir \o << <<"b">>, <<"index", "tsx">> >>,
     SrcDir \o << <<"b">>, <<"index", "js">> >>}

OtherFiles ==
    {FileC,
     SrcDir \o << <<"c", "js">> >>,
     SrcDir \o << <<"data", "json">> >>,
     Cwd \o << <<"packages">>, <<"ui">>, <<"index", "ts">> >>,
     UtilIndex, LodashMain, FrameworkJs, RNWebMain} \cup Installed

BaseDirs == {SrcDir, Cwd}

\* no path is a file and a directory at once
WellFormed(fs) ==
    \A f \in fs, g \in fs : ~(Len(f) < Len(g) /\ SubSeq(g, 1, Len(f)) = f)

InitResolve ==
    /\ HostInit
    /\ AuxInit
    /\ files \in {fs \in {x \cup y : x \in SUBSET ProbeFiles, y \in {{}, OtherFiles}} :
                      WellFormed(fs)}
    /\ lastResolve = <<>>
    /\ now = 1
    /\ mtimes = [f \in Sources |-> 0]
    /\ kinds = [f \in Sources |-> "ok"]
    /\ cached = [d \in Deps |-> <<>>]
    /\ temps = [n \in TempNames |-> <<>>]
    /\ tempDir = FALSE
    /\ moduleCache = [p \in Requestable |-> <<>>]
    /\ loaded = {}
    /\ immediates = {}
    /\ calls = [c \in {"a"} |-> IdleCall]
    /\ results = [c \in {"a"} |-> <<>>]
    /\ nLoads = 0
    /\ nEdits = 0
    /\ lastLoad = [p \in Requestable |-> <<>>]
    /\ ev = {}

\* one pass of the resolver chain (lines 146-278) for one specifier
Resolve(baseDir, s) ==
    /\ UNCHANGED hostVars
    /\ lastResolve' = <<[spec |-> s, base |-> baseDir, res |-> ResolveImport(files, baseDir, s)]>>
    /\ UNCHANGED <<files, now, mtimes, kinds, cached, temps, tempDir, moduleCache, loaded,
                   immediates, calls, results, nLoads, nEdits, lastLoad, ev>>

NextResolve == \E baseDir \in BaseDirs, s \in Specifiers : Resolve(baseDir, s)

SpecResolve == InitResolve /\ [][NextResolve]_vars

\* ------------------------------------------------------------------ claims

C2_ChangedFileLoadsNewModule ==
    [][\A c \in Slots :
          (/\ ImportDone(c)
           /\ calls[c].edits = nEdits
           /\ results'[c][1].ok
           /\ moduleCache[calls[c].path] # <<>>
           /\ moduleCache[calls[c].path][1].mtime # calls[c].mtime)
              => /\ results'[c][1].module[1] # moduleCache[calls[c].path][1].module
                 /\ moduleCache'[calls[c].path] =
                        <<[module |-> results'[c][1].module[1], mtime |-> calls[c].mtime]>>]_vars

\* C3: for a dependency d that needs transforming, the cache file is
\* regenerated (d handed to the transformer, then written) exactly when it is
\* missing or d's modification time is strictly greater than the cache
\* file's; otherwise the existing cache file is kept as it is and the
\* transformer is not invoked for d. In both cases the from-clause ends up
\* naming d's cache file.
C3_DependencyCacheDecision ==
    \A c \in Slots : \A e \in ev :
        e.call = calls[c].id =>
            /\ (e.op = "decide") =>
                /\ e.regen <=> (e.cache = <<>> \/ e.src > e.cache[1])
                /\ e.regen =>
                    /\ calls[c].pc = "dep"
                    /\ calls[c].dep[1].file = e.file
                    /\ calls[c].stack[Len(calls[c].stack)].file = e.in
                    /\ calls[c].stack[Len(calls[c].stack)].i = e.pos
                /\ ~e.regen =>
                    /\ ~(calls[c].pc = "dep" /\ calls[c].dep[1].file = e.file)
                    /\ cached[e.file] # <<>>
                    /\ cached[e.file][1].mtime = e.cache[1]
                    /\ calls[c].stack[Len(calls[c].stack)].file = e.in
                    /\ calls[c].stack[Len(calls[c].stack)].out[e.pos] =
                           FileUrl(CachedFile(e.file))
            /\ (e.op = "write") =>
                /\ cached[e.file] # <<>>
                /\ cached[e.file][1].ver = e.ver
                /\ cached[e.file][1].mtime = now
                /\ calls[c].stack[Len(calls[c].stack)].file = e.in
                /\ calls[c].stack[Len(calls[c].stack)].out[e.pos] = FileUrl(CachedFile(e.file))

\* a cache file is there and its source is strictly newer: regenerated
C3_Witness ==
    \E e \in ev : e.op = "decide" /\ e.regen /\ e.cache # <<>> /\ e.src > e.cache[1]

\* a cache file is there and is not older than its source: reused
C3_ReuseReached ==
    \E e \in ev : e.op = "decide" /\ ~e.regen /\ e.cache # <<>> /\ e.src <= e.cache[1]

\* the source files a file imports that need transforming
DepsOf(f) ==
    {d \in Deps : \E k \in 1..Len(Imports(f)) : Outcomes(cached, f)[k].dep = <<d>>}

RECURSIVE ReachFrom(_, _)
ReachFrom(S, n) ==
    IF n = 0 THEN S ELSE ReachFrom(S \cup UNION {DepsOf(d) : d \in S}, n - 1)

Reachable(p) == ReachFrom(DepsOf(p), Cardinality(Deps))

\* C4: whenever transformFile starts the dynamic import of the entry, every
\* source dependency reachable from it, at any depth, has a cache file at
\* least as new as the dependency's source (stated for calls during which no
\* source file is saved).
C4_GraphFreshAtImport ==
    [][\A c \in Slots :
          (RewriteDone(c) /\ calls[c].edits = nEdits)
              => \A d \in Reachable(calls[c].path) :
                     cached[d] # <<>> /\ cached[d][1].mtime >= mtimes[d]]_vars

\* C5: every from-clause naming the UI-runtime package or one of its
\* sub-paths is rewritten, in every file the rewriter writes, to the inline
\* data-URL shim reading the process-global runtime slot, never to a file.
C5_ReactImportsBecomeShim ==
    /\ \A n \in TempNames : temps[n] # <<>> =>
          \A k \in 1..Len(temps[n][1].out) :
              Imports(temps[n][1].src)[k] \in {ReactSpec, ReactJsxSpec}
                  => temps[n][1].out[k] =
                         [t |-> "data", shim |-> "react", slot |-> "__FLOAT_REACT__"]
    /\ \A d \in Deps : cached[d] # <<>> =>
          \A k \in 1..Len(cached[d][1].out) :
              Imports(d)[k] \in {ReactSpec, ReactJsxSpec}
                  => cached[d][1].out[k] =
                         [t |-> "data", shim |-> "react", slot |-> "__FLOAT_REACT__"]

C5_Witness ==
    /\ cached[FileB] # <<>>
    /\ Imports(FileB)[1] = ReactJsxSpec
    /\ cached[FileB][1].out[1] = DataUrl("react")
    /\ \E n \in TempNames :
          /\ temps[n] # <<>>
          /\ Imports(AppFile)[1] = ReactSpec
          /\ temps[n][1].out[1] = DataUrl("react")

\* C10: when the transform of a dependency found while rewriting fails, at
\* whatever depth, the transformFile call fails with that dependency's error;
\* no cache file is written, no temporary file is written, nothing is
\* imported and the module cache is left as it was.
C10_DependencyFailureFailsLoad ==
    [][\A c \in Slots :
          (DepTransformDone(c) /\ calls[c].dep[1].kind = "syntax")
              => /\ results'[c] # <<>>
                 /\ ~results'[c][1].ok
                 /\ results'[c][1].err =
                        <<[kind |-> "SyntaxError", file |-> calls[c].dep[1].file]>>
                 /\ ~results'[c][1].wrote
                 /\ calls'[c].pc = "idle"
                 /\ UNCHANGED <<cached, temps, loaded, moduleCache, immediates>>]_vars

\* the failing dependency is two imports away from the entry
C10_Witness ==
    \E c \in Slots :
        /\ results[c] # <<>>
        /\ ~results[c][1].ok
        /\ results[c][1].err = <<[kind |-> "SyntaxError", file |-> FileC]>>
        /\ FileC \notin DepsOf(results[c][1].path)
        /\ FileC \in Reachable(results[c][1].path)

\* the class of a specifier, by the tests of the documented classes
ClassOf(s) ==
    IF s \in {ReactSpec, ReactJsxSpec} THEN "react"
    ELSE IF s \in {ReactDomSpec, ReactDomClientSpec} THEN "react-dom"
    ELSE IF s = ReactNativeSpec THEN "native"
    ELSE IF s \in {CoreSpec, LiteSpec} THEN "framework"
    ELSE IF s.pre \in {"./", "../", "@/"} THEN "relative"
    ELSE "bare"

\* whether any candidate the probing looks at exists
AnyCandidate(fs, t) ==
    \E i \in 1..Len(Extensions) :
        ExistsSync(fs, TryPath(t, i)) \/ ExistsSync(fs, IndexPath(t, i))

\* C6: a specifier is handled by its class alone, the classes taken in the
\* order UI runtime, renderer, native platform, framework (legacy alias
\* included), relative, bare: the first class that matches decides the
\* rewrite even when a later step could resolve the specifier too, and a
\* relative specifier reaches the bare-specifier step exactly when probing
\* found no existing candidate.
C6_ClassificationOrder ==
    lastResolve # <<>> =>
        /\ ClassOf(lastResolve[1].spec) = "react" =>
              lastResolve[1].res =
                  [found |-> TRUE, shim |-> "react", path |-> <<>>, by |-> "react",
                   probed |-> FALSE, looked |-> FALSE]
        /\ ClassOf(lastResolve[1].spec) = "react-dom" =>
              lastResolve[1].res =
                  [found |-> TRUE, shim |-> "react-dom", path |-> <<>>, by |-> "react-dom",
                   probed |-> FALSE, looked |-> FALSE]
        /\ ClassOf(lastResolve[1].spec) = "native" =>
              /\ lastResolve[1].res.by = "native"
              /\ lastResolve[1].res.shim = ""
              /\ lastResolve[1].res.path \in {RNWebMain, << <<"react-native-web">> >>}
              /\ ~lastResolve[1].res.probed /\ ~lastResolve[1].res.looked
        /\ ClassOf(lastResolve[1].spec) = "framework" =>
              /\ lastResolve[1].res.by = "framework"
              /\ lastResolve[1].res.shim = ""
              /\ lastResolve[1].res.path \in
                     {Append(FrameworkDir, <<"index", "js">>),
                      Append(FrameworkDir, <<"index", "ts">>)}
              /\ ~lastResolve[1].res.probed /\ ~lastResolve[1].res.looked
        /\ ClassOf(lastResolve[1].spec) = "relative" =>
              /\ lastResolve[1].res.probed
              /\ lastResolve[1].res.shim = ""
              /\ lastResolve[1].res.looked <=>
                     ~AnyCandidate(files, RelativeTarget(lastResolve[1].base,
                                                         lastResolve[1].spec))
              /\ ~lastResolve[1].res.looked => lastResolve[1].res.by = "relative"
        /\ ClassOf(lastResolve[1].spec) = "bare" =>
              /\ ~lastResolve[1].res.probed
              /\ lastResolve[1].res.looked
              /\ lastResolve[1].res.shim = ""
              /\ lastResolve[1].res.by \in {"bare", "none"}

\* the renderer's package is installed and the shim still decides
C6_Witness ==
    /\ lastResolve # <<>>
    /\ lastResolve[1].spec = ReactDomClientSpec
    /\ NodeModules \o << <<"react-dom">>, <<"index", "js">> >> \in files
    /\ lastResolve[1].res.shim = "react-dom"

\* a relative specifier no candidate exists for goes on to the bare step
C6_RelativeHandedOn ==
    /\ lastResolve # <<>>
    /\ lastResolve[1].spec = RelData
    /\ SrcDir \o << <<"data", "json">> >> \in files
    /\ lastResolve[1].res.looked

\* the first entry of a sequence of paths that exists, if any
FirstExisting(fs, c) ==
    IF \E i \in 1..Len(c) : ExistsSync(fs, c[i])
    THEN <<c[CHOOSE i \in 1..Len(c) :
                ExistsSync(fs, c[i]) /\ \A j \in 1..(i - 1) : ~ExistsSync(fs, c[j])]>>
    ELSE <<>>

\* literal path; path + each extension; index + each extension
DocumentedCandidates(t) ==
    <<t>> \o [i \in 1..Len(Extensions) |-> AddExt(t, ExtPart(Extensions[i]))]
          \o [i \in 1..Len(Extensions) |-> JoinIndex(t, ExtPart(Extensions[i]))]

\* per extension: stripped path + extension, then index + extension
InterleavedCandidates(t) ==
    [k \in 1..(2 * Len(Extensions)) |->
        IF k % 2 = 1
        THEN AddExt(StrippedPath(t), ExtPart(Extensions[(k + 1) \div 2]))
        ELSE JoinIndex(t, ExtPart(Extensions[k \div 2]))]

C7_LiteralPassedOver ==
    /\ lastResolve # <<>>
    /\ lastResolve[1].spec = RelBJs
    /\ SrcDir \o << <<"b", "js">> >> \in files
    /\ lastResolve[1].res.path = SrcDir \o << <<"b", "ts">> >>

\* C8: while two transformFile calls for the same file are in flight, their
\* temporary files have different names; the file a call is importing is
\* there and is the one that call wrote; and every call for a loadable file
\* ends Loaded.
C8_ConcurrentLoadsKeepApart ==
    /\ \A c1 \in Slots, c2 \in Slots :
          (/\ c1 # c2
           /\ calls[c1].tmp # <<>>
           /\ calls[c2].tmp # <<>>
           /\ calls[c1].path = calls[c2].path)
              => calls[c1].tmp # calls[c2].tmp
    /\ \A c \in Slots :
          calls[c].pc = "import"
              => /\ temps[calls[c].tmp[1]] # <<>>
                 /\ temps[calls[c].tmp[1]][1].by = calls[c].id
    /\ \A c \in Slots :
          (results[c] # <<>> /\ kinds[results[c][1].path] = "ok") => results[c][1].ok

\* C9: once a call that wrote a temporary file has finished, with the debug
\* flag off its file is gone as soon as the import has failed or the
\* scheduled deletion has run, and with the debug flag on its file is still
\* there.
C9_TempFileLifecycle ==
    \A c \in Slots :
        (results[c] # <<>> /\ results[c][1].wrote) =>
            IF results[c][1].dbg
            THEN temps[results[c][1].tmp[1]] # <<>>
            ELSE (~results[c][1].ok \/ results[c][1].tmp[1] \notin immediates)
                    => \/ temps[results[c][1].tmp[1]] = <<>>
                       \/ temps[results[c][1].tmp[1]][1].by # results[c][1].id

\* C11: a specifier no resolver step resolves stays in the rewritten code as
\* it was written; rewriteImports goes on to the end of the code and the other
\* specifiers of the same code are rewritten as usual.
C11_UnresolvedLeftAsWritten ==
    \A n \in DOMAIN temps :
        (temps[n] # <<>> /\ temps[n][1].src = PageFile) =>
            /\ Len(temps[n][1].out) = Len(Imports(PageFile))
            /\ \A k \in 1..Len(temps[n][1].out) :
                  IF Imports(PageFile)[k] \in {NoPkgSpec, RelData}
                  THEN temps[n][1].out[k] = [t |-> "orig", spec |-> Imports(PageFile)[k]]
                  ELSE temps[n][1].out[k].t \in {"data", "file"}
            /\ temps[n][1].out[4] = FileUrl(CachedFile(FileB))

\* the page's code has been written with both specifiers left as they were
C11_Witness ==
    \E n \in DOMAIN temps :
        /\ temps[n] # <<>>
        /\ temps[n][1].src = PageFile
        /\ temps[n][1].out[2] = [t |-> "orig", spec |-> NoPkgSpec]
        /\ temps[n][1].out[3] = [t |-> "orig", spec |-> RelData]
        /\ temps[n][1].out[5] = FileUrl(LodashMain)

\* C12: transformFile on a path that does not exist fails with the
\* file-not-found error, whether or not the module cache holds an entry for
\* the path, and changes nothing: the module cache, the cache directory, the
\* temporary and cache files stay as they were and no transform is started.
C12_MissingFileFailsFirst ==
    [][\A c \in Slots, p \in AllEntries, dbg \in BOOLEAN :
          (Begin(c, p, dbg) /\ p \notin files)
              => /\ results'[c] # <<>>
                 /\ ~results'[c][1].ok
                 /\ results'[c][1].err = <<[kind |-> "FileNotFound", file |-> p]>>
                 /\ ~results'[c][1].wrote
                 /\ UNCHANGED <<calls, moduleCache, tempDir, temps, cached, loaded,
                                immediates>>]_vars

\* the call failed although the module cache holds an entry for the path
C12_Witness ==
    \E c \in Slots :
        /\ results[c] # <<>>
        /\ results[c][1].err # <<>>
        /\ results[c][1].err[1].kind = "FileNotFound"
        /\ results[c][1].path \notin files
        /\ moduleCache[results[c][1].path] # <<>>

\* C13: after any sequence of lockFrameworkDependencies calls the lock is
\* what the last call alone makes it: both fields hold the real paths found
\* from that call's project root when both packages resolved, and neither
\* field holds a path when either lookup failed; no call throws.
C13_LockIsLastCallAlone ==
    lastLock # <<>> =>
        /\ ~lastLock[1].threw
        /\ IF lastLock[1].react # <<>> /\ lastLock[1].dom # <<>>
           THEN /\ lockedReactPath = <<Realpath(lastLock[1].react[1])>>
                /\ lockedReactDOMPath = <<Realpath(lastLock[1].dom[1])>>
           ELSE /\ lockedReactPath = <<>>
                /\ lockedReactDOMPath = <<>>

\* a failed call after a successful one leaves the earlier root's paths
C13_StaleLockKept ==
    /\ lastLock # <<>>
    /\ lastLock[1].root = BareRoot
    /\ lockedReactPath = <<PackageEntry(Cwd, "react")>>
    /\ lockedReactDOMPath = <<PackageEntry(Cwd, "react-dom")>>

\* the fields can hold paths of two different roots
C13_MixedLock ==
    /\ lastLock # <<>>
    /\ lastLock[1].root = AltRoot
    /\ lockedReactPath = <<StoreReact>>
    /\ lockedReactDOMPath = <<PackageEntry(Cwd, "react-dom")>>

\* C14: once the lock is set, a module transformed after the last lock call
\* reaches, through the shims, the runtime at the locked path and the
\* renderer at the locked renderer path, and no other instance.
C14_ModulesUseLockedRuntime ==
    (/\ used # <<>>
     /\ lastLock # <<>>
     /\ ~used[1].hit
     /\ used[1].id > lastLock[1].at
     /\ used[1].outcome = "called") =>
        /\ (used[1].export \in RuntimeUses /\ lockedReactPath # <<>>)
              => used[1].inst = lockedReactPath
        /\ (used[1].export \in RendererUses /\ lockedReactDOMPath # <<>>)
              => used[1].inst = lockedReactDOMPath

\* the lock holds one install of the runtime, the module got another
C14_OtherInstanceUsed ==
    /\ used # <<>>
    /\ lastLock # <<>>
    /\ used[1].id > lastLock[1].at
    /\ used[1].export = "useState"
    /\ lockedReactPath = <<PackageEntry(Cwd, "react")>>
    /\ used[1].inst = <<StoreReact>>

\* C15: with the global runtime slot not populated, every use of an export
\* of the UI-runtime shim (a named hook, createElement, a call through the
\* default export) logs an error and returns nothing, and none throws.
C15_MissingSlotNeverThrows ==
    (/\ used # <<>>
     /\ used[1].export \in RuntimeUses
     /\ used[1].slot["__FLOAT_REACT__"] = <<>>) =>
        /\ used[1].outcome = "noop"
        /\ used[1].logged

\* the named exports do degrade as described
C15_NamedExportsDegrade ==
    (/\ used # <<>>
     /\ used[1].export \in {"useState", "createElement"}
     /\ used[1].slot["__FLOAT_REACT__"] = <<>>) =>
        /\ used[1].outcome = "noop"
        /\ used[1].logged

\* the default export stays unbound when the slot is filled after the shim
\* was evaluated
C15_LatePopulateStillThrows ==
    /\ used # <<>>
    /\ used[1].export = "default.createElement"
    /\ used[1].slot["__FLOAT_REACT__"] # <<>>
    /\ used[1].outcome = "threw"

C17_ClearRemovesOwnEntry ==
    [][/\ \A p \in PathSpellings :
            ClearModuleCache(p) =>
                moduleCache' = [moduleCache EXCEPT ![AbsolutePath(p)] = <<>>]
       /\ ClearAll => \A k \in DOMAIN moduleCache : moduleCache'[k] = <<>>]_vars

\* the entry made for the dotted spelling outlives every clearModuleCache
\* call that names a path: only clearModuleCache() removes it
C17_DottedEntryOutlivesClear ==
    [][(moduleCache[AppDotted] # <<>> /\ moduleCache'[AppDotted] = <<>>) => ClearAll]_vars

\* for the spellings path.resolve leaves alone or makes absolute, the claim
\* holds
C17_ResolvedSpellingsCleared ==
    [][\A p \in {AppFile, AppRelative} :
            ClearModuleCache(p) =>
                moduleCache' = [moduleCache EXCEPT ![AbsolutePath(p)] = <<>>]]_vars

\* C18: an entry of the module cache is set only by a call whose dynamic
\* import succeeded, for that call's path, as {the module imported, the
\* modification time the call read when it started}, and the call ends
\* Loaded; a call whose dynamic import fails ends with the import's own
\* error and leaves the module cache as it was.
C18_CacheWrittenOnlyWhenLoaded ==
    [][/\ \A p \in DOMAIN moduleCache :
            (moduleCache'[p] # moduleCache[p] /\ moduleCache'[p] # <<>>) =>
                \E c \in Slots :
                    /\ calls[c].pc = "import"
                    /\ calls[c].path = p
                    /\ ImportOutcome(calls[c].tmp[1]).ok
                    /\ moduleCache'[p] =
                          <<[module |-> ImportOutcome(calls[c].tmp[1]).module,
                             mtime |-> calls[c].mtime]>>
                    /\ results'[c] # <<>>
                    /\ results'[c][1].ok
                    /\ results'[c][1].module = <<moduleCache'[p][1].module>>
       /\ \A c \in Slots :
            (ImportDone(c) /\ ~ImportOutcome(calls[c].tmp[1]).ok) =>
                /\ UNCHANGED moduleCache
                /\ results'[c][1].err = <<ImportOutcome(calls[c].tmp[1]).err>>]_vars

\* an import has failed while the cache held an older entry for the path,
\* and the entry is still there
C18_Witness ==
    \E c \in Slots :
        /\ results[c] # <<>>
        /\ ~results[c][1].ok
        /\ results[c][1].wrote
        /\ results[c][1].err[1].kind = "EvaluationError"
        /\ moduleCache[results[c][1].path] # <<>>
        /\ moduleCache[results[c][1].path][1].mtime < results[c][1].mtime

\* a call has cached its module under the modification time it started
\* with, the file having been saved while the call was in flight
C18_StartMtimeCached ==
    \E c \in Slots :
        /\ results[c] # <<>>
        /\ results[c][1].ok
        /\ ~results[c][1].hit
        /\ moduleCache[results[c][1].path] # <<>>
        /\ moduleCache[results[c][1].path][1].mtime = results[c][1].mtime
        /\ mtimes[results[c][1].path] > results[c][1].mtime

\* C19: rewriteImports terminates on every finite graph of source files,
\* import cycles and a cold dependency cache included: within one call no
\* source file is handed to the transformer again while a transform of the
\* same file is still unfinished, so every file is transformed a bounded
\* number of times and the recursion is no deeper than the graph is large.
C19_NoFileTransformedInsideItself ==
    \A c \in Slots :
        \A i \in 1..Len(calls[c].stack), j \in 1..Len(calls[c].stack) :
            (i < j) => calls[c].stack[i].file # calls[c].stack[j].file

\* the recursion has gone round the cycle: cb.tsx is being rewritten inside
\* ca.tsx inside cb.tsx inside the entry ca.tsx, and no cache file of either
\* has been written
C19_RoundTheCycle ==
    \E c \in Slots :
        /\ Len(calls[c].stack) = 4
        /\ calls[c].stack[1].file = CycA
        /\ calls[c].stack[2].file = CycB
        /\ calls[c].stack[3].file = CycA
        /\ calls[c].stack[4].file = CycB
        /\ cached[CycA] = <<>>
        /\ cached[CycB] = <<>>

\* on the graph without a cycle the recursion is as deep as the graph
C19_AcyclicDepth ==
    \A c \in Slots :
        (calls[c].path = AppFile) => Len(calls[c].stack) <= 3

\* C20: under every interleaving of concurrent transformFile calls for one
\* path with saves of the file, an entry {module, m} of the module cache
\* holds a module made from the content the file had at modification time m,
\* and a call that reads another modification time is not answered from the
\* cache.
C20_CacheEntryMatchesItsMtime ==
    /\ \A p \in DOMAIN moduleCache :
          moduleCache[p] # <<>> =>
              /\ moduleCache[p][1].module.src = p
              /\ moduleCache[p][1].module.ver = moduleCache[p][1].mtime
    /\ \A c \in Slots :
          (results[c] # <<>> /\ results[c][1].ok /\ results[c][1].hit) =>
              results[c][1].module[1].ver = results[c][1].mtime

\* the half of the claim about what a call is answered with: a call is
\* answered from the cache only when the entry's modification time is the
\* one the call has just read
C20_HitOnlyOnSameMtime ==
    [][\A c \in Slots, p \in Entries :
          (Begin(c, p, FALSE) /\ results'[c] # <<>> /\ results'[c][1].ok) =>
              /\ moduleCache[p] # <<>>
              /\ moduleCache[p][1].mtime = mtimes[p]
              /\ results'[c][1].module = <<moduleCache[p][1].module>>]_vars

\* an older call finishing last puts its own pair back over a newer one;
\* the pair is still a module and the modification time it was made from
C20_OlderCallOverwrites ==
    \E p \in DOMAIN moduleCache :
        /\ moduleCache[p] # <<>>
        /\ moduleCache[p][1].mtime < mtimes[p]
        /\ moduleCache[p][1].module.ver = moduleCache[p][1].mtime
        /\ \E c \in Slots :
              /\ results[c] # <<>>
              /\ results[c][1].ok
              /\ results[c][1].mtime = mtimes[p]

\* the entry pairs the module of one version with the modification time of
\* another
C20_MismatchedEntry ==
    \E p \in DOMAIN moduleCache :
        /\ moduleCache[p] # <<>>
        /\ moduleCache[p][1].module.ver # moduleCache[p][1].mtime

\* C21: every export of the UI-runtime shim reads the global slot when it
\* is used: whatever the slot held when the shim was evaluated, a use of the
\* default export, of Fragment, of a named hook or of createElement reaches
\* the instance the slot holds at that moment.
C21_ExportsReadSlotAtUse ==
    (used # <<>> /\ used[1].export \in RuntimeUses \cup RuntimeReads) =>
        /\ used[1].inst = used[1].slot["__FLOAT_REACT__"]
        /\ used[1].outcome # "threw"

\* the named function exports do read the slot when they are called
C21_NamedExportsReadSlotAtUse ==
    (used # <<>> /\ used[1].export \in {"useState", "createElement"}) =>
        used[1].inst = used[1].slot["__FLOAT_REACT__"]

\* Fragment is still undefined after the slot has been populated
C21_StaleFragment ==
    /\ used # <<>>
    /\ used[1].export = "Fragment"
    /\ used[1].slot["__FLOAT_REACT__"] # <<>>
    /\ used[1].inst = <<>>

\* what rewriteImports has to return, piece by piece: the code between the
\* from-clauses as it was, a skipped from-clause as it was, and in the place
\* of every other from-clause what the operator given as Clause makes of it
RECURSIVE Spliced(_, _, _, _, _, _)
Spliced(Clause(_, _, _), fs, code, ms, k, pos) ==
    IF k > Len(ms) THEN SubSeq(code, pos, Len(code))
    ELSE SubSeq(code, pos, ms[k].index - 1)
         \o (IF FinalImportPath(fs, ms[k].path) = <<>>
             THEN SubSeq(code, ms[k].index, ms[k].last)
             ELSE Clause(code, ms[k], FinalImportPath(fs, ms[k].path)[1]))
         \o Spliced(Clause, fs, code, ms, k + 1, ms[k].last + 1)

\* the from-clause with nothing but its quoted path token replaced
TokenReplaced(code, m, target) ==
    SubSeq(code, m.index, m.last - Len(m.path) - 2) \o <<"'">> \o Href(target) \o <<"'">>

\* the from-clause written anew: the keyword, one space, the quoted target
ClauseReplaced(code, m, target) == <<"from", " ", "'">> \o Href(target) \o <<"'">>

\* C22 as documented: rewriteImports preserves every character outside the
\* matched from-clauses, puts the k-th rewritten from-clause where the k-th
\* original one was, and inside a rewritten from-clause changes the quoted
\* path token only.
C22_OnlyPathTokenChanges ==
    text.stage = "rewritten" =>
        text.code = Spliced(TokenReplaced, files, text.before, MatchAll(text.before, 1), 1, 1)

\* C22: rewriteImports preserves every character outside the matched
\* from-clauses and puts the k-th rewritten from-clause where the k-th
\* original one was, whatever the lengths of the earlier replacements and
\* however many from-clauses were skipped; a rewritten from-clause is the
\* keyword, one space and the target in single quotes, so the white space
\* after the keyword is not always what it was.
C22_ClausesReplacedInPlace ==
    text.stage = "rewritten" =>
        text.code = Spliced(ClauseReplaced, files, text.before, MatchAll(text.before, 1), 1, 1)

\* three from-clauses, the second one skipped, the replacements of the
\* others of different lengths
C22_Witness ==
    /\ text.stage = "rewritten"
    /\ text.before = ImportFrom(<<"React">>, ReactSpec) \o ImportFrom(<<"x">>, NoPkgSpec)
                        \o ImportFrom(<<"{", "b", "}">>, RelB)
    /\ Len(MatchAll(text.before, 1)) = 3
    /\ Len(text.code) > Len(text.before)
    /\ Includes(text.code, <<"from", " ", "\"">> \o SpecifierText(NoPkgSpec) \o <<"\"">>)
    /\ Includes(text.code, Replacement(FileUrl(CachedFile(FileB))))

\* the white space of a from-clause is not kept
C22_WhiteSpaceCollapsed ==
    /\ text.stage = "rewritten"
    /\ Includes(text.before, <<"from", " ", "\n", "'">> \o SpecifierText(LodashSpec))
    /\ Includes(text.code, <<"from", " ", "'", "file://">>)
    /\ ~Includes(text.code, <<"from", " ", "\n">>)

\* the code calls the factory of the UI runtime
ReferencesRuntime(code) == Includes(code, <<"React", ".", "createElement">>)

\* the code binds the name React by a default or a namespace import
ImportsRuntime(code) ==
    \/ Includes(code, <<"import", " ", "React", " ", "from">>)
    \/ Includes(code, <<"import", " ", "*", " ", "as", " ", "React", " ", "from">>)

\* C23: after the injection step, code that references the UI runtime
\* binding has an import that binds it: the default import is injected
\* whenever the transformed code references the runtime without importing
\* it, also when the only imports it has bind other names that begin with
\* the runtime's name.
C23_RuntimeImportPresent ==
    text.stage = "injected" =>
        (ReferencesRuntime(text.code) => ImportsRuntime(text.code))

\* markup in a file whose only import binds ReactDOM: nothing is injected
C23_RendererImportHidesMissingRuntime ==
    /\ text.stage = "injected"
    /\ text.src = ImportFrom(<<"React", "DOM">>, ReactDomSpec) \o Markup
    /\ text.code = text.src
    /\ ~ImportsRuntime(text.code)

\* without an import whose text begins with the runtime's name the step
\* does what is documented
C23_InjectedWhenNoImportNamesRuntime ==
    (text.stage = "injected" /\ ~Includes(text.src, <<"import", " ", "React", "DOM">>))
        => (ReferencesRuntime(text.code) => ImportsRuntime(text.code))

\* a quoted string ending in .css that follows the word at position i
CssStringAfter(code, i, a, b) ==
    /\ a > i + 1
    /\ a <= Len(code)
    /\ code[a] \in Quotes
    /\ b <= Len(code)
    /\ b >= a + 3
    /\ code[b - 2] = "."
    /\ code[b - 1] = "css"

\* an import statement of a stylesheet: import '<...>.css', or import of a
\* binding from '<...>.css'
CssImportAt(code, i) ==
    /\ code[i] \in {"import", "from"}
    /\ CssStringAfter(code, i, SkipWhile(code, i + 1, Ws),
                      SkipUntil(code, SkipWhile(code, i + 1, Ws) + 1, Quotes))

\* C24: the code written to the temporary file has no stylesheet import
\* statement, in the side-effect form or in the binding form.
C24_NoStylesheetImportWritten ==
    text.stage = "written" =>
        \A i \in 1..Len(text.code) : ~CssImportAt(text.code, i)

\* the side-effect form is removed
C24_SideEffectFormRemoved ==
    text.stage = "written" =>
        \A i \in 1..Len(text.code) :
            text.code[i] = "import" => ~CssImportAt(text.code, i)

\* the binding form is written to the temporary file, its specifier
\* rewritten to the file URL of the stylesheet
C24_BindingFormWritten ==
    /\ text.stage = "written"
    /\ Includes(text.src, ImportFrom(<<"styles">>, RelCss))
    /\ Includes(text.code, <<"import", " ", "styles", " ">> \o Replacement(FileUrl(CssFile)))

\* C25: a native-platform specifier is rewritten to the resolved path of
\* the web polyfill package when the package resolves from the importing
\* file's directory, and is left as written when it does not.
C25_NativeSpecifierRewrite ==
    (lastResolve # <<>> /\ lastResolve[1].spec = ReactNativeSpec) =>
        Rewritten(cached, ReactNativeSpec, lastResolve[1].res).target =
            IF NodeResolve(files, lastResolve[1].base, ReactNativeWebSpec) # <<>>
            THEN FileUrl(NodeResolve(files, lastResolve[1].base, ReactNativeWebSpec)[1])
            ELSE Unmodified(ReactNativeSpec)

\* when the polyfill resolves, the from-clause names its resolved path
C25_ResolvedPolyfillUsed ==
    (/\ lastResolve # <<>>
     /\ lastResolve[1].spec = ReactNativeSpec
     /\ NodeResolve(files, lastResolve[1].base, ReactNativeWebSpec) # <<>>) =>
        Rewritten(cached, ReactNativeSpec, lastResolve[1].res).target = FileUrl(RNWebMain)

\* the polyfill is not installed and the from-clause has become the file
\* URL of react-native-web in the working directory
C25_WorkingDirectoryUrl ==
    /\ lastResolve # <<>>
    /\ lastResolve[1].spec = ReactNativeSpec
    /\ RNWebMain \notin files
    /\ Rewritten(cached, ReactNativeSpec, lastResolve[1].res).target =
          [t |-> "file", path |-> Cwd \o << <<"react-native-web">> >>]

\* C26: with history enabled and maxHistory at least 1, whenever every call
\* made so far has taken effect the history holds at most maxHistory
\* entries, the index points into it, and the entry at the index is the
\* current state; undo at index 0 and redo at the last index change
\* nothing, and undo followed by redo restores state and index.
HistoryConsistent(h) ==
    /\ Len(h.history) <= h.opts.max
    /\ 0 <= h.index /\ h.index < Len(h.history)
    /\ h.history[h.index + 1] = h.state

C26_HistoryTracksState ==
    (hook # <<>> /\ hook.opts.history /\ hook.queue = <<>>) =>
        /\ HistoryConsistent(hook)
        /\ hook.index = 0 => Undone(hook) = hook
        /\ hook.index = Len(hook.history) - 1 => Redone(hook) = hook
        /\ hook.index > 0 =>
              /\ Flushed(Redone(Flushed(Undone(hook)))).state = hook.state
              /\ Flushed(Redone(Flushed(Undone(hook)))).index = hook.index

\* the same, for the calls of which each one is rendered before the next
\* is made: at most one update is ever pending
C26_HistoryTracksStateWhenRenderedEachCall ==
    [][(hook # <<>> /\ hook.opts.history /\ hook.queue = <<>>
        /\ HistoryConsistent(hook) /\ hook' # hook /\ hook'.opts = hook.opts)
       => HistoryConsistent(Flushed(hook'))]_vars

\* a call made while another update is pending left the history entry at
\* the index different from the state
C26_IndexOffState ==
    /\ hook # <<>>
    /\ hook.opts.history
    /\ hook.queue = <<>>
    /\ hook.index < Len(hook.history)
    /\ hook.history[hook.index + 1] # hook.state

\* C27: with a persist key, whenever every call made so far has taken
\* effect the value stored under the key is the serialization of the
\* current state, so that a later session starts from the state the user
\* last saw.
C27_StorageHoldsCurrentState ==
    (hook # <<>> /\ hook.opts.persist /\ hook.queue = <<>>) =>
        /\ hook.storage # <<>> => hook.storage = <<Serialize(hook.state)>>
        /\ hook.rehydrated # <<>> => hook.state = hook.rehydrated[1]

\* setValue alone keeps the stored value equal to the state: with history
\* off no other call changes the state
C27_StorageHoldsCurrentStateWithoutHistory ==
    (hook # <<>> /\ hook.opts.persist /\ ~hook.opts.history /\ hook.queue = <<>>) =>
        /\ hook.storage # <<>> => hook.storage = <<Serialize(hook.state)>>
        /\ hook.rehydrated # <<>> => hook.state = hook.rehydrated[1]

\* a session that started from storage shows another state than the one
\* the last session ended with
C27_RehydratedToUndoneValue ==
    /\ hook # <<>>
    /\ hook.opts.persist
    /\ hook.rehydrated # <<>>
    /\ hook.state # hook.rehydrated[1]

====
